---- MODULE Spec2Model ----
(***************************************************************************)
(* Operation execution and log streaming engine of penumbra-wrapper:       *)
(* the operation store (src/store/operationStore.ts), the event stream     *)
(* listener (useOperationStream), the error handler and error parser, the  *)
(* operation launcher (executeOperation) and the bulk backup loop of the   *)
(* dashboard (handleFastBackup).                                           *)
(*                                                                         *)
(* Representation of JavaScript values:                                    *)
(*   - a string is a tuple of one-character strings ("ok" is <<"o","k">>), *)
(*     so that includes(), toLowerCase() and template literals are         *)
(*     computed, not assumed;                                              *)
(*   - null / undefined of a string-typed field is Null;                   *)
(*   - an optional number or object is a tuple of length at most one;      *)
(*   - an ISO-8601 timestamp string is <<"T", ms>>, anything else does not *)
(*     parse (new Date(s).getTime() is NaN).                               *)
(***************************************************************************)
EXTENDS Integers, Sequences, FiniteSets, TLC

VARIABLES
    store,          \* the zustand operation store (useOperationStore)
    isLogPanelOpen, \* useUIStore.isLogPanelOpen
    now,            \* the wall clock read by Date.now() and new Date()
    uuidCount,      \* number of uuidv4() values drawn so far
    exec,           \* the executeOperation call in flight (its locals)
    backup,         \* the handleFastBackup call in flight (its locals)
    aborted,        \* abortController.signal.aborted of the backup
    calls,          \* history: every entry passed to addLog, in call order
    scenario,       \* history: progress of the run start, output*, completion
    listener,       \* the useOperationStream instance: its effect's locals
    handled,        \* the last direct ErrorHandler.handle call: argument and result
    device,         \* useDeviceStore and usePartitionStore, and the cancel requests
    dialog,         \* ConfirmationProvider and ConfirmationModal: state, ref and timers
    budget          \* remaining environment steps (bounds the exploration)

vars == <<store, isLogPanelOpen, now, uuidCount, exec, backup, aborted, calls, scenario,
          listener, handled, device, dialog, budget>>

(***************************************************************************)
(* JavaScript strings and truthiness                                       *)
(***************************************************************************)
Null == <<"null">>

Truthy(v) == v # Null /\ v # <<>>

\* a || b on string-or-null operands
Or(a, b) == IF Truthy(a) THEN a ELSE b

\* a ?? b on string-or-null operands
Coalesce(a, b) == IF a # Null THEN a ELSE b

UpperChars == <<"A", "B", "C", "D", "E", "F", "G", "H", "I", "J", "K", "L", "M",
    "N", "O", "P", "Q", "R", "S", "T", "U", "V", "W", "X", "Y", "Z">>

LowerChars == <<"a", "b", "c", "d", "e", "f", "g", "h", "i", "j", "k", "l", "m",
    "n", "o", "p", "q", "r", "s", "t", "u", "v", "w", "x", "y", "z">>

toLowerCase(s) ==
    IF s = <<>> THEN <<>>
    ELSE [i \in 1..Len(s) |->
            IF \E k \in DOMAIN UpperChars : UpperChars[k] = s[i]
            THEN LowerChars[CHOOSE k \in DOMAIN UpperChars : UpperChars[k] = s[i]]
            ELSE s[i]]

includes(s, sub) ==
    \E i \in 0..(Len(s) - Len(sub)) : SubSeq(s, i + 1, i + Len(sub)) = sub

Abs(n) == IF n < 0 THEN -n ELSE n

(***************************************************************************)
(* Time: new Date().toISOString() and new Date(s).getTime()                *)
(***************************************************************************)
toISOString(ms) == <<"T", ms>>

\* <<ms>> for a string that parses, <<>> for NaN
getTime(ts) == IF Len(ts) = 2 /\ ts[1] = "T" THEN <<ts[2]>> ELSE <<>>

InvalidDate == <<"not a date">>

(***************************************************************************)
(* Operation store                                                         *)
(***************************************************************************)
MAX_LOGS == 10000

DEDUP_WINDOW_MS == 500

InitStore ==
    [ type |-> "null",
      partitionName |-> Null,
      partitionSize |-> Null,
      isRunning |-> FALSE,
      operationId |-> Null,
      isStreaming |-> FALSE,
      startTime |-> <<>>,
      logs |-> <<>>,
      progress |-> <<>>,
      error |-> Null ]

startOperation_FreshLogs(s, type, partitionName, partitionSize, operationId, dateNow) ==
    [ type |-> type, partitionName |-> partitionName,
      partitionSize |-> Or(partitionSize, Null), isRunning |-> TRUE,
      operationId |-> Or(operationId, Null), isStreaming |-> Truthy(operationId),
      startTime |-> <<dateNow>>, logs |-> <<>>, progress |-> <<>>, error |-> Null ]

\* startOperation, had it refused to start while an operation is running
startOperation_RejectWhileRunning(s, type, partitionName, partitionSize, operationId, dateNow) ==
    IF s.isRunning
    THEN s
    ELSE [ s EXCEPT
             !.type = type,
             !.partitionName = partitionName,
             !.partitionSize = Or(partitionSize, Null),
             !.isRunning = TRUE,
             !.progress = <<>>,
             !.error = Null,
             !.operationId = Or(operationId, Null),
             !.isStreaming = Truthy(operationId),
             !.startTime = <<dateNow>> ]

startOperation(s, type, partitionName, partitionSize, operationId, dateNow) ==
    [ s EXCEPT
        !.type = type,
        !.partitionName = partitionName,
        !.partitionSize = Or(partitionSize, Null),
        !.isRunning = TRUE,
        !.progress = <<>>,
        !.logs = s.logs,
        !.error = Null,
        !.operationId = Or(operationId, Null),
        !.isStreaming = Truthy(operationId),
        !.startTime = <<dateNow>> ]

setOperationId(s, operationId) ==
    [s EXCEPT !.operationId = operationId, !.isStreaming = TRUE]

setIsStreaming(s, isStreaming) == [s EXCEPT !.isStreaming = isStreaming]

updateProgress(s, progress) == [s EXCEPT !.progress = <<progress>>]

\* IsDuplicate comparing the level as well
IsDuplicate_SameLevel(logs, log) ==
    /\ Len(logs) > 0
    /\ LET lastLog == logs[Len(logs)]
           a == getTime(log.timestamp)
           b == getTime(lastLog.timestamp)
       IN  /\ lastLog.message = log.message
           /\ lastLog.level = log.level
           /\ a # <<>>
           /\ b # <<>>
           /\ Abs(a[1] - b[1]) < DEDUP_WINDOW_MS

\* IsDuplicate with the window's end included
IsDuplicate_Inclusive(logs, log) ==
    /\ Len(logs) > 0
    /\ LET lastLog == logs[Len(logs)]
           a == getTime(log.timestamp)
           b == getTime(lastLog.timestamp)
       IN  /\ lastLog.message = log.message
           /\ a # <<>>
           /\ b # <<>>
           /\ Abs(a[1] - b[1]) <= DEDUP_WINDOW_MS

\* lines 86-89: the last entry has the same message and lies less than 500 ms away
IsDuplicate(logs, log) ==
    /\ Len(logs) > 0
    /\ LET lastLog == logs[Len(logs)]
           a == getTime(log.timestamp)
           b == getTime(lastLog.timestamp)
       IN  /\ lastLog.message = log.message
           /\ a # <<>>
           /\ b # <<>>
           /\ Abs(a[1] - b[1]) < DEDUP_WINDOW_MS

\* lines 95-98: { ...log, id: log.id || uuidv4() }
WithId(log, uuid) ==
    IF "id" \in DOMAIN log THEN log ELSE [id |-> uuid] @@ log

\* Trim cutting the newest entries instead of the oldest
Trim_KeepOldest(newLogs) ==
    IF Len(newLogs) > MAX_LOGS THEN SubSeq(newLogs, 1, MAX_LOGS) ELSE newLogs

\* lines 102-105: newLogs.splice(0, newLogs.length - MAX_LOGS)
Trim(newLogs) ==
    IF Len(newLogs) > MAX_LOGS
    THEN SubSeq(newLogs, Len(newLogs) - MAX_LOGS + 1, Len(newLogs))
    ELSE newLogs

\* addLog putting the new entry in front
addLog_Prepend(s, log, uuid) ==
    IF IsDuplicate(s.logs, log)
    THEN s
    ELSE [s EXCEPT !.logs = Trim(<<WithId(log, uuid)>> \o s.logs)]

addLog(s, log, uuid) ==
    IF IsDuplicate(s.logs, log)
    THEN s
    ELSE [s EXCEPT !.logs = Trim(Append(s.logs, WithId(log, uuid)))]

clearLogs_Reset(s) == InitStore

clearLogs(s) == [s EXCEPT !.logs = <<>>]

finishOperation_KeepError(s, success, error) ==
    [s EXCEPT !.isRunning = FALSE, !.error = Or(error, s.error), !.isStreaming = FALSE]

finishOperation_KeepStreaming(s, success, error) ==
    [s EXCEPT !.isRunning = FALSE, !.error = Or(error, Null)]

finishOperation_ForgetSubject(s, success, error) ==
    [s EXCEPT !.isRunning = FALSE, !.error = Or(error, Null), !.isStreaming = FALSE,
              !.operationId = Null, !.partitionName = Null]

finishOperation(s, success, error) ==
    [s EXCEPT !.isRunning = FALSE, !.error = Or(error, Null), !.isStreaming = FALSE]

clearOperation(s) == InitStore

(***************************************************************************)
(* uuidv4(): the n-th value drawn; distinct draws give distinct values     *)
(***************************************************************************)
uuidv4(n) == <<"uuid", n>>

(***************************************************************************)
(* A call useOperationStore.getState().addLog(log) threaded through the    *)
(* store, the uuid source and the history.  The history tags the entry     *)
(* with the ordinal of the call (field "call"), which the store's spread   *)
(* { ...log } carries along like any other field.                          *)
(***************************************************************************)
Ctx(s, n, h) == [s |-> s, n |-> n, calls |-> h]

StoreAddLog(c, log) ==
    LET tagged == [call |-> Len(c.calls) + 1] @@ log
    IN  [ s |-> addLog(c.s, tagged, uuidv4(c.n + 1)),
          n |-> IF IsDuplicate(c.s.logs, tagged) THEN c.n ELSE c.n + 1,
          calls |-> Append(c.calls, tagged) ]

\* clearLogs on the store; the history restarts with the emptied log sequence
StoreClearLogs(c) == Ctx(clearLogs(c.s), c.n, <<>>)

(***************************************************************************)
(* Event stream listener (useOperationStream)                              *)
(***************************************************************************)
ParseLevel_StderrFirst(line, is_stderr) ==
    LET lowerLine == toLowerCase(line)
    IN  IF is_stderr THEN "error"
        ELSE IF includes(lowerLine, <<"e", "r", "r", "o", "r">>)
                \/ includes(lowerLine, <<"f", "a", "i", "l", "e", "d">>)
        THEN "error"
        ELSE IF includes(lowerLine, <<"w", "a", "r", "n", "i", "n", "g">>)
                \/ includes(lowerLine, <<"w", "a", "r", "n">>)
        THEN "warning"
        ELSE IF includes(lowerLine, <<"s", "u", "c", "c", "e", "s", "s">>)
                \/ includes(lowerLine, <<"c", "o", "m", "p", "l", "e", "t", "e">>)
                \/ includes(lowerLine, <<"f", "o", "u", "n", "d">>)
        THEN "success"
        ELSE "info"

\* lines 51-60: the level of an output line
ParseLevel(line, is_stderr) ==
    LET lowerLine == toLowerCase(line)
    IN  IF includes(lowerLine, <<"e", "r", "r", "o", "r">>)
           \/ includes(lowerLine, <<"f", "a", "i", "l", "e", "d">>)
        THEN "error"
        ELSE IF includes(lowerLine, <<"w", "a", "r", "n", "i", "n", "g">>)
                \/ includes(lowerLine, <<"w", "a", "r", "n">>)
        THEN "warning"
        ELSE IF includes(lowerLine, <<"s", "u", "c", "c", "e", "s", "s">>)
                \/ includes(lowerLine, <<"c", "o", "m", "p", "l", "e", "t", "e">>)
                \/ includes(lowerLine, <<"f", "o", "u", "n", "d">>)
        THEN "success"
        ELSE IF is_stderr THEN "error" ELSE "info"

\* the callback, had it also marked the operation as streaming again
OnOutput_MarksStreaming(c, payload) ==
    LET logged == StoreAddLog(c, [ timestamp |-> payload.timestamp,
                                   level |-> ParseLevel(payload.line, payload.is_stderr),
                                   message |-> payload.line ])
    IN  [logged EXCEPT !.s = setIsStreaming(logged.s, TRUE)]

\* lines 45-67: the 'operation:output' callback
OnOutput(c, payload) ==
    StoreAddLog(c, [ timestamp |-> payload.timestamp,
                     level |-> ParseLevel(payload.line, payload.is_stderr),
                     message |-> payload.line ])

OnComplete_MatchingId(s, payload) ==
    IF s.operationId = payload.operation_id
    THEN setIsStreaming(finishOperation(s, payload.success, payload.error), FALSE)
    ELSE s

\* lines 70-77: the 'operation:complete' callback
OnComplete(s, payload) ==
    setIsStreaming(finishOperation(s, payload.success, payload.error), FALSE)

(***************************************************************************)
(* Listener lifecycle (useOperationStream, the effect of lines 38-92).     *)
(* pc is the position of setupListeners; isMounted, unlistenOutput and     *)
(* unlistenComplete are the effect's locals (an unlisten function is       *)
(* either assigned or null); a callback is "none" until its listen call    *)
(* has resolved, then "registered", and "removed" once its unlisten        *)
(* function was called.  History: tornDownAt is pc at the cleanup,         *)
(* delivered the number of callback invocations, ignored the number of     *)
(* those that returned at the isMounted guard; unhandledRejection and      *)
(* consoleErrors record what a failed subscription leaves behind.          *)
(***************************************************************************)
UnmountedListener ==
    [ pc |-> "unmounted", isMounted |-> FALSE, unlistenOutput |-> FALSE,
      unlistenComplete |-> FALSE, outputCallback |-> "none", completeCallback |-> "none",
      tornDownAt |-> "none", delivered |-> 0, ignored |-> 0,
      unhandledRejection |-> FALSE, consoleErrors |-> 0 ]

\* the listener of a running application: mounted, both channels subscribed
SubscribedListener ==
    [ UnmountedListener EXCEPT !.pc = "ready", !.isMounted = TRUE,
                               !.unlistenOutput = TRUE, !.unlistenComplete = TRUE,
                               !.outputCallback = "registered",
                               !.completeCallback = "registered" ]

OutputCallback_Unguarded(c, isMounted, payload) == OnOutput(c, payload)

\* lines 45-67, with the guard of line 46
OutputCallback(c, isMounted, payload) == IF ~isMounted THEN c ELSE OnOutput(c, payload)

\* lines 70-77, with the guard of line 71
CompleteCallback(s, isMounted, payload) == IF ~isMounted THEN s ELSE OnComplete(s, payload)

\* lines 83-91: the effect's cleanup
Cleanup(l) ==
    [ l EXCEPT !.isMounted = FALSE,
               !.outputCallback = IF l.unlistenOutput THEN "removed" ELSE @,
               !.completeCallback = IF l.unlistenComplete THEN "removed" ELSE @,
               !.tornDownAt = l.pc ]

\* a callback invocation, counted
Invoked(l) ==
    [ l EXCEPT !.delivered = @ + 1, !.ignored = IF l.isMounted THEN @ ELSE @ + 1 ]

(***************************************************************************)
(* Error parser (errorParser.ts).  A failure value `error: unknown` is a   *)
(* record: tag "null" (null or undefined), "Error" (a native Error with    *)
(* its message), "string" (text is the string), "object" (a plain object   *)
(* with its optional string fields type, message, category, suggestion and *)
(* output, its optional number code, and text, what JSON.stringify gives   *)
(* for it, Null when it throws) or "other" (text is what String() gives).  *)
(***************************************************************************)
ErrorValue(tag, text, type, message, category, suggestion) ==
    [ tag |-> tag, text |-> text, type |-> type, message |-> message,
      category |-> category, suggestion |-> suggestion, code |-> <<>>, output |-> Null ]

AppError(type, message, category, suggestion, code, output) ==
    [ type |-> type, message |-> message, category |-> category,
      suggestion |-> suggestion, code |-> code, output |-> output ]

Str_network == <<"n", "e", "t", "w", "o", "r", "k">>

Str_permission == <<"p", "e", "r", "m", "i", "s", "s", "i", "o", "n">>

Str_filesystem == <<"f", "i", "l", "e", "s", "y", "s", "t", "e", "m">>

Str_validation == <<"v", "a", "l", "i", "d", "a", "t", "i", "o", "n">>

Str_command == <<"c", "o", "m", "m", "a", "n", "d">>

Str_update == <<"u", "p", "d", "a", "t", "e">>

Str_unknown == <<"u", "n", "k", "n", "o", "w", "n">>

Str_other == <<"o", "t", "h", "e", "r">>

AnErrorOccurred ==
    <<"A", "n", " ", "e", "r", "r", "o", "r", " ", "o", "c", "c", "u", "r", "r", "e", "d">>

\* a value that is a number and not a string, e.g. category: 5
NumberValue(n) == <<"number", n>>

IsString(v) == v = <<>> \/ v[1] # "number"

\* what a function that returns a string yields when it throws a TypeError instead
TypeError == <<"TypeError">>

\* what a function that returns an object yields when it throws instead
Raise(exception) == [thrown |-> exception]

Throws(result) == "thrown" \in DOMAIN result

\* parseCategory comparing the category as it is written
parseCategory_CaseSensitive(category) ==
    IF ~Truthy(category) THEN Str_unknown
    ELSE IF ~IsString(category) THEN TypeError
    ELSE IF category \in { Str_network, Str_permission, Str_filesystem, Str_validation,
                           Str_command, Str_update }
    THEN category
    ELSE Str_unknown

\* lines 89-109; category.toLowerCase() (line 92) is not a function when the category is
\* a number: err.category is read through an unchecked cast (line 38)
parseCategory(category) ==
    IF ~Truthy(category) THEN Str_unknown
    ELSE IF ~IsString(category) THEN TypeError
    ELSE LET normalized == toLowerCase(category)
         IN  IF normalized \in { Str_network, Str_permission, Str_filesystem,
                                 Str_validation, Str_command, Str_update }
             THEN normalized
             ELSE Str_unknown

\* lines 114-174
categorizeErrorString(message) ==
    LET lowerMessage == toLowerCase(message)
    IN  IF \/ includes(lowerMessage, <<"n", "e", "t", "w", "o", "r", "k">>)
           \/ includes(lowerMessage, <<"c", "o", "n", "n", "e", "c", "t", "i", "o", "n">>)
           \/ includes(lowerMessage, <<"t", "i", "m", "e", "o", "u", "t">>)
           \/ includes(lowerMessage, <<"d", "n", "s">>)
           \/ includes(lowerMessage, <<"g", "i", "t", "h", "u", "b">>)
           \/ includes(lowerMessage, <<"d", "o", "w", "n", "l", "o", "a", "d">>)
           \/ includes(lowerMessage, <<"f", "e", "t", "c", "h">>)
        THEN Str_network
        ELSE IF \/ includes(lowerMessage, <<"p", "e", "r", "m", "i", "s", "s", "i", "o", "n">>)
                \/ includes(lowerMessage,
                            <<"a", "c", "c", "e", "s", "s", " ", "d", "e", "n", "i", "e", "d">>)
                \/ includes(lowerMessage,
                            <<"e", "r", "r", "o", "r", " ", "c", "o", "d", "e", " ", "5">>)
                \/ includes(lowerMessage,
                            <<"e", "r", "r", "o", "r", " ", "c", "o", "d", "e", " ", "3", "2">>)
                \/ includes(lowerMessage, <<"s", "h", "a", "r", "i", "n", "g", " ", "v", "i",
                                            "o", "l", "a", "t", "i", "o", "n">>)
                \/ includes(lowerMessage,
                            <<"a", "d", "m", "i", "n", "i", "s", "t", "r", "a", "t", "o", "r">>)
        THEN Str_permission
        ELSE IF \/ includes(lowerMessage, <<"f", "i", "l", "e">>)
                \/ includes(lowerMessage, <<"d", "i", "r", "e", "c", "t", "o", "r", "y">>)
                \/ includes(lowerMessage, <<"p", "a", "t", "h">>)
                \/ includes(lowerMessage, <<"n", "o", "t", " ", "f", "o", "u", "n", "d">>)
                \/ includes(lowerMessage, <<"d", "i", "s", "k", " ", "f", "u", "l", "l">>)
                \/ includes(lowerMessage, <<"n", "o", " ", "s", "p", "a", "c", "e">>)
        THEN Str_filesystem
        ELSE IF \/ includes(lowerMessage, <<"c", "o", "m", "m", "a", "n", "d">>)
                \/ includes(lowerMessage, <<"e", "x", "e", "c", "u", "t", "i", "o", "n">>)
                \/ includes(lowerMessage, <<"a", "n", "t", "u", "m", "b", "r", "a">>)
        THEN Str_command
        ELSE IF \/ includes(lowerMessage, <<"u", "p", "d", "a", "t", "e">>)
                \/ includes(lowerMessage, <<"c", "h", "e", "c", "k", "s", "u", "m">>)
                \/ includes(lowerMessage, <<"h", "a", "s", "h">>)
                \/ includes(lowerMessage,
                            <<"v", "e", "r", "i", "f", "i", "c", "a", "t", "i", "o", "n">>)
        THEN Str_update
        ELSE Str_unknown

\* lines 8-84
parseTauriError(error) ==
    IF error.tag = "null"
    THEN AppError(Str_unknown,
                  <<"A", "n", " ", "u", "n", "k", "n", "o", "w", "n", " ", "e", "r", "r", "o",
                    "r", " ", "o", "c", "c", "u", "r", "r", "e", "d">>,
                  Str_unknown, Null, <<>>, Null)
    ELSE IF error.tag = "Error"
    THEN AppError(Str_other, Or(error.message, AnErrorOccurred), Str_unknown, Null, <<>>, Null)
    ELSE IF error.tag = "string"
    THEN AppError(Str_other, error.text, categorizeErrorString(error.text), Null, <<>>, Null)
    ELSE IF error.tag = "object"
    THEN IF error.type # Null
         THEN IF parseCategory(error.category) = TypeError THEN Raise(TypeError)
              ELSE AppError(error.type, Or(error.message, AnErrorOccurred),
                            parseCategory(error.category), error.suggestion, error.code,
                            error.output)
         ELSE IF error.message # Null
         THEN AppError(Str_other, error.message, categorizeErrorString(error.message),
                       Null, <<>>, Null)
         ELSE IF error.text # Null
         THEN AppError(Str_other, error.text, Str_unknown, Null, <<>>, Null)
         ELSE AppError(Str_other,
                       <<"A", "n", " ", "e", "r", "r", "o", "r", " ", "o", "c", "c", "u", "r",
                         "r", "e", "d", " ", "(", "d", "e", "t", "a", "i", "l", "s", " ", "u",
                         "n", "a", "v", "a", "i", "l", "a", "b", "l", "e", ")">>,
                       Str_unknown, Null, <<>>, Null)
    ELSE AppError(Str_unknown, error.text, Str_unknown, Null, <<>>, Null)

\* lines 188-211
getErrorSuggestion(error) ==
    LET parsed == parseTauriError(error)
    IN  IF Truthy(parsed.suggestion) THEN parsed.suggestion
        ELSE IF parsed.category = Str_network
        THEN <<"C", "h", "e", "c", "k", " ", "y", "o", "u", "r", " ", "i", "n", "t", "e", "r",
               "n", "e", "t", " ", "c", "o", "n", "n", "e", "c", "t", "i", "o", "n", " ", "a",
               "n", "d", " ", "t", "r", "y", " ", "a", "g", "a", "i", "n">>
        ELSE IF parsed.category = Str_permission
        THEN <<"R", "u", "n", " ", "a", "s", " ", "A", "d", "m", "i", "n", "i", "s", "t", "r",
               "a", "t", "o", "r", " ", "o", "r", " ", "c", "h", "e", "c", "k", " ", "f", "o",
               "l", "d", "e", "r", " ", "p", "e", "r", "m", "i", "s", "s", "i", "o", "n", "s">>
        ELSE IF parsed.category = Str_filesystem
        THEN <<"C", "h", "e", "c", "k", " ", "t", "h", "a", "t", " ", "f", "i", "l", "e", "s",
               " ", "a", "n", "d", " ", "d", "i", "r", "e", "c", "t", "o", "r", "i", "e", "s",
               " ", "e", "x", "i", "s", "t", " ", "a", "n", "d", " ", "a", "r", "e", " ", "a",
               "c", "c", "e", "s", "s", "i", "b", "l", "e">>
        ELSE IF parsed.category = Str_command
        THEN <<"E", "n", "s", "u", "r", "e", " ", "r", "e", "q", "u", "i", "r", "e", "d", " ",
               "b", "i", "n", "a", "r", "i", "e", "s", " ", "a", "r", "e", " ", "i", "n", "s",
               "t", "a", "l", "l", "e", "d", " ", "a", "n", "d", " ", "a", "c", "c", "e", "s",
               "s", "i", "b", "l", "e">>
        ELSE IF parsed.category = Str_update
        THEN <<"T", "r", "y", " ", "u", "p", "d", "a", "t", "i", "n", "g", " ", "a", "g", "a",
               "i", "n", " ", "o", "r", " ", "c", "h", "e", "c", "k", " ", "f", "o", "r", " ",
               "a", "v", "a", "i", "l", "a", "b", "l", "e", " ", "u", "p", "d", "a", "t", "e",
               "s">>
        ELSE Null

(***************************************************************************)
(* Error handler (ErrorHandler).  An optional boolean option is a tuple of *)
(* length at most one; toasts and the console are not part of the state.   *)
(***************************************************************************)
Default(option, value) == IF option = <<>> THEN value ELSE option[1]

ErrorOptions(showToast, addToOperationLog, customMessage) ==
    [ showToast |-> showToast, logToConsole |-> <<>>,
      addToOperationLog |-> addToOperationLog, customMessage |-> customMessage,
      showSuggestion |-> <<>> ]

\* lines 53-59: the message and the suggestion handle() shows
HandledMessage(error, options) == Or(options.customMessage, parseTauriError(error).message)

\* handle() showing only a suggestion the error brought itself
HandledSuggestion_ExplicitOnly(error, options) ==
    IF Default(options.showSuggestion, TRUE) THEN parseTauriError(error).suggestion ELSE Null

HandledSuggestion(error, options) ==
    IF Default(options.showSuggestion, TRUE)
    THEN Or(parseTauriError(error).suggestion, getErrorSuggestion(error))
    ELSE Null

\* handle, had it ignored the addToOperationLog option
ErrorHandler_handle_AlwaysLogs(c, error, operation, options, dateNow) ==
    LET errorMessage == HandledMessage(error, options)
        suggestion == HandledSuggestion(error, options)
        c1 == StoreAddLog(c, [ timestamp |-> toISOString(dateNow), level |-> "error",
                               message |-> <<"[">> \o operation \o <<"]", " ">>
                                           \o errorMessage ])
        c2 == StoreAddLog(c1, [ timestamp |-> toISOString(dateNow), level |-> "info",
                                message |-> <<"(bulb)", " ", "S", "u", "g", "g", "e", "s",
                                              "t", "i", "o", "n", ":", " ">> \o suggestion ])
    IN  IF Throws(parseTauriError(error)) THEN c
        ELSE IF Truthy(suggestion) THEN c2
        ELSE c1

\* lines 36-90: ErrorHandler.handle, its effect on the store; when parseTauriError
\* (line 50) throws, nothing has been added yet
ErrorHandler_handle(c, error, operation, options, dateNow) ==
    LET errorMessage == HandledMessage(error, options)
        suggestion == HandledSuggestion(error, options)
        c1 == StoreAddLog(c, [ timestamp |-> toISOString(dateNow), level |-> "error",
                               message |-> <<"[">> \o operation \o <<"]", " ">>
                                           \o errorMessage ])
        c2 == StoreAddLog(c1, [ timestamp |-> toISOString(dateNow), level |-> "info",
                                message |-> <<"(bulb)", " ", "S", "u", "g", "g", "e", "s",
                                              "t", "i", "o", "n", ":", " ">> \o suggestion ])
    IN  IF Throws(parseTauriError(error)) THEN c
        ELSE IF ~Default(options.addToOperationLog, TRUE) THEN c
        ELSE IF Truthy(suggestion) THEN c2
        ELSE c1

\* lines 105: message || `${operation} completed successfully`
SuccessMessage(operation, message) ==
    Or(message, operation \o <<" ", "c", "o", "m", "p", "l", "e", "t", "e", "d", " ", "s", "u",
                               "c", "c", "e", "s", "s", "f", "u", "l", "l", "y">>)

\* lines 100-116: ErrorHandler.success, its effect on the store
ErrorHandler_success(c, operation, message, dateNow) ==
    StoreAddLog(c, [ timestamp |-> toISOString(dateNow), level |-> "success",
                     message |-> SuccessMessage(operation, message) ])

(***************************************************************************)
(* Launcher (executeOperation.ts).  The options are a record; an optional  *)
(* boolean and the optional errorOptions are tuples of length at most one, *)
(* an absent string is Null, and onStart is the message the hook adds to   *)
(* the log (Null: no hook).  The part before `await run(operationId)` is   *)
(* ExecuteBegin, the part after it ExecuteTry (run resolved) or            *)
(* ExecuteCatch (run rejected).                                            *)
(***************************************************************************)
ExecuteOptions(operation, type, partitionName, partitionSize, operationId, clearLogsOption, openLogPanel, successMessage, handleSuccess, errorMessage, errorOptions, onStart) ==
    [ operation |-> operation, type |-> type, partitionName |-> partitionName,
      partitionSize |-> partitionSize, operationId |-> operationId,
      clearLogs |-> clearLogsOption, openLogPanel |-> openLogPanel,
      successMessage |-> successMessage, handleSuccess |-> handleSuccess,
      errorMessage |-> errorMessage, errorOptions |-> errorOptions, onStart |-> onStart ]

OperationIdFor_AlwaysFresh(providedOperationId, uuid) == uuid

\* line 43: providedOperationId || uuidv4()
OperationIdFor(providedOperationId, uuid) == Or(providedOperationId, uuid)

\* line 75: { ...errorOptions, customMessage: errorMessage ?? errorOptions?.customMessage }
MergedErrorOptions(options) ==
    LET given == IF options.errorOptions = <<>> THEN ErrorOptions(<<>>, <<>>, Null)
                 ELSE options.errorOptions[1]
    IN  [given EXCEPT !.customMessage = Coalesce(options.errorMessage, given.customMessage)]

\* the synchronous part with the start hook called before the logs are cleared
ExecuteBegin_HookBeforeClear(c, options, dateNow) ==
    LET fresh == ~Truthy(options.operationId)
        operationId == OperationIdFor(options.operationId, uuidv4(c.n + 1))
        c0 == Ctx(c.s, IF fresh THEN c.n + 1 ELSE c.n, c.calls)
        c1 == IF options.onStart # Null
              THEN StoreAddLog(c0, [ timestamp |-> toISOString(dateNow), level |-> "info",
                                     message |-> options.onStart ])
              ELSE c0
        c2 == IF Default(options.clearLogs, TRUE) THEN StoreClearLogs(c1) ELSE c1
    IN  [ s |-> startOperation(c2.s, options.type, options.partitionName,
                               options.partitionSize, operationId, dateNow),
          n |-> c2.n, calls |-> c2.calls, operationId |-> operationId ]

\* lines 43-60: the Registry, the uuid source and the history after the synchronous
\* part, and the id handed to onStart, startOperation and run
ExecuteBegin(c, options, dateNow) ==
    LET fresh == ~Truthy(options.operationId)
        operationId == OperationIdFor(options.operationId, uuidv4(c.n + 1))
        c0 == LET cleared == IF Default(options.clearLogs, TRUE) THEN StoreClearLogs(c) ELSE c
              IN  Ctx(cleared.s, IF fresh THEN c.n + 1 ELSE c.n, cleared.calls)
        c1 == IF options.onStart # Null
              THEN StoreAddLog(c0, [ timestamp |-> toISOString(dateNow), level |-> "info",
                                     message |-> options.onStart ])
              ELSE c0
    IN  [ s |-> startOperation(c1.s, options.type, options.partitionName,
                               options.partitionSize, operationId, dateNow),
          n |-> c1.n, calls |-> c1.calls, operationId |-> operationId ]

\* lines 43-57 when the onStart hook throws: the logs are cleared (when enabled) and
\* the exception leaves executeOperation before startOperation and before the try
ExecuteBeginHookThrows(c, options, dateNow) ==
    LET fresh == ~Truthy(options.operationId)
        operationId == OperationIdFor(options.operationId, uuidv4(c.n + 1))
        cleared == IF Default(options.clearLogs, TRUE) THEN StoreClearLogs(c) ELSE c
    IN  [ s |-> cleared.s, n |-> IF fresh THEN c.n + 1 ELSE c.n, calls |-> cleared.calls,
          operationId |-> operationId ]

\* the try block returning without finishOperation and setIsStreaming
ExecuteTry_NoFinish(c, options, dateNow) ==
    IF Default(options.handleSuccess, TRUE)
    THEN ErrorHandler_success(c, options.operation, options.successMessage, dateNow)
    ELSE c

\* lines 67-73
ExecuteTry(c, options, dateNow) ==
    LET c1 == IF Default(options.handleSuccess, TRUE)
              THEN ErrorHandler_success(c, options.operation, options.successMessage, dateNow)
              ELSE c
    IN  Ctx(setIsStreaming(finishOperation(c1.s, TRUE, Null), FALSE), c1.n, c1.calls)

ExecuteCatch_NoFinish(c, options, error, dateNow) ==
    ErrorHandler_handle(c, error, options.operation, MergedErrorOptions(options), dateNow)

\* lines 74-82
ExecuteCatch(c, options, error, dateNow) ==
    LET c1 == ErrorHandler_handle(c, error, options.operation, MergedErrorOptions(options),
                                  dateNow)
        errorDetail == IF error.tag = "Error" THEN error.message ELSE Null
    IN  Ctx(finishOperation(c1.s, FALSE, Or(options.errorMessage, errorDetail)),
            c1.n, c1.calls)

(***************************************************************************)
(* Bulk backup (Dashboard.tsx, handleFastBackup)                           *)
(***************************************************************************)
Digits == <<"0", "1", "2", "3", "4", "5", "6", "7", "8", "9">>

RECURSIVE NumberToString(_)
NumberToString(n) ==
    IF n < 10 THEN <<Digits[n + 1]>>
    ELSE NumberToString(n \div 10) \o <<Digits[(n % 10) + 1]>>

\* lines 315-325: the options of one partition's read
BackupOptions(partition, operationId) ==
    ExecuteOptions(<<"B", "a", "c", "k", "u", "p", " ">> \o partition.name, "read",
                   partition.name, partition.display_size, operationId, <<FALSE>>, <<FALSE>>,
                   Null, <<FALSE>>, Null, <<ErrorOptions(<<FALSE>>, <<>>, Null)>>, Null)

\* lines 287-291
StartingBackupMessage(n) ==
    <<"S", "t", "a", "r", "t", "i", "n", "g", " ", "B", "a", "c", "k", "u", "p", " ", "N", "V",
      "R", "A", "M", " ", "f", "o", "r", " ">>
    \o NumberToString(n)
    \o <<" ", "p", "a", "r", "t", "i", "t", "i", "o", "n", "s", ".", ".", ".">>

\* lines 299-302
CancelMessage(cancelReason) ==
    IF cancelReason = "disconnect"
    THEN <<"B", "a", "c", "k", "u", "p", " ", "s", "t", "o", "p", "p", "e", "d", " ", "a", "f",
           "t", "e", "r", " ", "c", "u", "r", "r", "e", "n", "t", " ", "p", "a", "r", "t", "i",
           "t", "i", "o", "n", " ", "b", "e", "c", "a", "u", "s", "e", " ", "t", "h", "e", " ",
           "d", "e", "v", "i", "c", "e", " ", "d", "i", "s", "c", "o", "n", "n", "e", "c", "t",
           "e", "d">>
    ELSE <<"B", "a", "c", "k", "u", "p", " ", "c", "a", "n", "c", "e", "l", "l", "e", "d", " ",
           "b", "y", " ", "u", "s", "e", "r">>

AfterUnit_StopOnFailure(b, success, n) ==
    IF ~success THEN [b EXCEPT !.failCount = @ + 1, !.i = n + 1]
    ELSE [b EXCEPT !.successCount = @ + 1, !.i = @ + 1]

\* lines 339-345 and the loop's i++: the counters after one partition's result
AfterUnit(b, success, n) ==
    IF ~success THEN [b EXCEPT !.failCount = @ + 1, !.i = @ + 1]
    ELSE [b EXCEPT !.successCount = @ + 1, !.i = @ + 1]

(***************************************************************************)
(* Windows error handler (WindowsErrorHandler) and the update download     *)
(* (useUpdateStore.downloadUpdate): the catch block of a failed download.  *)
(***************************************************************************)

\* windowsErrorHandler.ts lines 15-100; the error is one on which parseTauriError returns
WindowsErrorHandler_getErrorSuggestion(error) ==
    LET err == parseTauriError(error)
        lowerError == toLowerCase(err.message)
    IN  IF Truthy(err.suggestion) THEN err.suggestion
        ELSE IF err.category = Str_permission
        THEN <<"P", "e", "r", "m", "i", "s", "s", "i", "o", "n", " ", "d", "e", "n", "i", "e",
               "d", ".", " ", "R", "u", "n", " ", "a", "s", " ", "A", "d", "m", "i", "n", "i",
               "s", "t", "r", "a", "t", "o", "r", " ", "o", "r", " ", "c", "h", "e", "c", "k",
               " ", "y", "o", "u", "r", " ", "a", "n", "t", "i", "v", "i", "r", "u", "s", " ",
               "s", "o", "f", "t", "w", "a", "r", "e", ".">>
        ELSE IF err.category = Str_network
        THEN <<"N", "e", "t", "w", "o", "r", "k", " ", "e", "r", "r", "o", "r", ".", " ", "C",
               "h", "e", "c", "k", " ", "y", "o", "u", "r", " ", "i", "n", "t", "e", "r", "n",
               "e", "t", " ", "c", "o", "n", "n", "e", "c", "t", "i", "o", "n", " ", "a", "n",
               "d", " ", "t", "r", "y", " ", "a", "g", "a", "i", "n", ".">>
        ELSE IF err.category = Str_filesystem
        THEN <<"F", "i", "l", "e", " ", "s", "y", "s", "t", "e", "m", " ", "e", "r", "r", "o",
               "r", ".", " ", "C", "h", "e", "c", "k", " ", "f", "i", "l", "e", " ", "p", "e",
               "r", "m", "i", "s", "s", "i", "o", "n", "s", " ", "a", "n", "d", " ", "d", "i",
               "s", "k", " ", "s", "p", "a", "c", "e", ".">>
        ELSE IF err.category = Str_update
        THEN <<"U", "p", "d", "a", "t", "e", " ", "f", "a", "i", "l", "e", "d", ".", " ", "T",
               "r", "y", " ", "a", "g", "a", "i", "n", " ", "o", "r", " ", "c", "h", "e", "c",
               "k", " ", "f", "o", "r", " ", "a", "v", "a", "i", "l", "a", "b", "l", "e", " ",
               "u", "p", "d", "a", "t", "e", "s", ".">>
        ELSE IF \/ includes(lowerError, <<"s", "h", "a", "r", "i", "n", "g", " ", "v", "i",
                                          "o", "l", "a", "t", "i", "o", "n">>)
                \/ includes(lowerError, <<"f", "i", "l", "e", " ", "i", "n", " ", "u", "s",
                                          "e">>)
                \/ includes(lowerError, <<"b", "e", "i", "n", "g", " ", "u", "s", "e", "d",
                                          " ", "b", "y", " ", "a", "n", "o", "t", "h", "e",
                                          "r", " ", "p", "r", "o", "c", "e", "s", "s">>)
        THEN <<"a", "n", "t", "u", "m", "b", "r", "a", ".", "e", "x", "e", " ", "i", "s", " ",
               "c", "u", "r", "r", "e", "n", "t", "l", "y", " ", "r", "u", "n", "n", "i", "n",
               "g", ".", " ", "P", "l", "e", "a", "s", "e", " ", "c", "l", "o", "s", "e", " ",
               "i", "t", " ", "a", "n", "d", " ", "t", "r", "y", " ", "a", "g", "a", "i", "n",
               ".">>
        ELSE IF \/ includes(lowerError, <<"a", "c", "c", "e", "s", "s", " ", "d", "e", "n",
                                          "i", "e", "d">>)
                \/ includes(lowerError, <<"p", "e", "r", "m", "i", "s", "s", "i", "o", "n",
                                          " ", "d", "e", "n", "i", "e", "d">>)
        THEN <<"P", "e", "r", "m", "i", "s", "s", "i", "o", "n", " ", "d", "e", "n", "i", "e",
               "d", ".", " ", "R", "u", "n", " ", "a", "s", " ", "A", "d", "m", "i", "n", "i",
               "s", "t", "r", "a", "t", "o", "r", " ", "o", "r", " ", "c", "h", "e", "c", "k",
               " ", "y", "o", "u", "r", " ", "a", "n", "t", "i", "v", "i", "r", "u", "s", " ",
               "s", "o", "f", "t", "w", "a", "r", "e", ".">>
        ELSE IF \/ includes(lowerError, <<"d", "i", "s", "k", " ", "f", "u", "l", "l">>)
                \/ includes(lowerError, <<"i", "n", "s", "u", "f", "f", "i", "c", "i", "e",
                                          "n", "t", " ", "d", "i", "s", "k", " ", "s", "p",
                                          "a", "c", "e">>)
                \/ includes(lowerError, <<"n", "o", " ", "s", "p", "a", "c", "e", " ", "l",
                                          "e", "f", "t", " ", "o", "n", " ", "d", "e", "v",
                                          "i", "c", "e">>)
        THEN <<"I", "n", "s", "u", "f", "f", "i", "c", "i", "e", "n", "t", " ", "d", "i", "s",
               "k", " ", "s", "p", "a", "c", "e", ".", " ", "F", "r", "e", "e", " ", "u", "p",
               " ", "s", "p", "a", "c", "e", " ", "a", "n", "d", " ", "r", "e", "t", "r", "y",
               ".">>
        ELSE IF \/ includes(lowerError, <<"p", "a", "t", "h", " ", "n", "o", "t", " ", "f",
                                          "o", "u", "n", "d">>)
                \/ includes(lowerError, <<"f", "i", "l", "e", " ", "n", "o", "t", " ", "f",
                                          "o", "u", "n", "d">>)
                \/ includes(lowerError, <<"t", "h", "e", " ", "s", "y", "s", "t", "e", "m",
                                          " ", "c", "a", "n", "n", "o", "t", " ", "f", "i",
                                          "n", "d", " ", "t", "h", "e", " ", "p", "a", "t",
                                          "h", " ", "s", "p", "e", "c", "i", "f", "i", "e",
                                          "d">>)
        THEN <<"a", "n", "t", "u", "m", "b", "r", "a", ".", "e", "x", "e", " ", "n", "o", "t",
               " ", "f", "o", "u", "n", "d", ".", " ", "C", "h", "e", "c", "k", " ", "y", "o",
               "u", "r", " ", "i", "n", "s", "t", "a", "l", "l", "a", "t", "i", "o", "n", " ",
               "p", "a", "t", "h", ".">>
        ELSE IF \/ includes(lowerError, <<"n", "e", "t", "w", "o", "r", "k">>)
                \/ includes(lowerError, <<"c", "o", "n", "n", "e", "c", "t", "i", "o", "n">>)
                \/ includes(lowerError, <<"t", "i", "m", "e", "o", "u", "t">>)
                \/ includes(lowerError, <<"d", "n", "s">>)
        THEN <<"N", "e", "t", "w", "o", "r", "k", " ", "e", "r", "r", "o", "r", ".", " ", "C",
               "h", "e", "c", "k", " ", "y", "o", "u", "r", " ", "i", "n", "t", "e", "r", "n",
               "e", "t", " ", "c", "o", "n", "n", "e", "c", "t", "i", "o", "n", " ", "a", "n",
               "d", " ", "t", "r", "y", " ", "a", "g", "a", "i", "n", ".">>
        ELSE IF \/ includes(lowerError, <<"c", "h", "e", "c", "k", "s", "u", "m">>)
                \/ includes(lowerError, <<"h", "a", "s", "h">>)
                \/ includes(lowerError, <<"v", "e", "r", "i", "f", "i", "c", "a", "t", "i",
                                          "o", "n", " ", "f", "a", "i", "l", "e", "d">>)
        THEN <<"D", "o", "w", "n", "l", "o", "a", "d", " ", "v", "e", "r", "i", "f", "i", "c",
               "a", "t", "i", "o", "n", " ", "f", "a", "i", "l", "e", "d", ".", " ", "T", "h",
               "e", " ", "f", "i", "l", "e", " ", "m", "a", "y", " ", "b", "e", " ", "c", "o",
               "r", "r", "u", "p", "t", "e", "d", ".", " ", "T", "r", "y", " ", "d", "o", "w",
               "n", "l", "o", "a", "d", "i", "n", "g", " ", "a", "g", "a", "i", "n", ".">>
        ELSE IF \/ includes(lowerError, <<"a", "p", "i">>)
                \/ includes(lowerError, <<"g", "i", "t", "h", "u", "b">>)
                \/ includes(lowerError, <<"4", "0", "4">>)
                \/ includes(lowerError, <<"r", "a", "t", "e", " ", "l", "i", "m", "i", "t">>)
        THEN <<"F", "a", "i", "l", "e", "d", " ", "t", "o", " ", "c", "o", "n", "n", "e", "c",
               "t", " ", "t", "o", " ", "G", "i", "t", "H", "u", "b", ".", " ", "C", "h", "e",
               "c", "k", " ", "y", "o", "u", "r", " ", "i", "n", "t", "e", "r", "n", "e", "t",
               " ", "c", "o", "n", "n", "e", "c", "t", "i", "o", "n", " ", "o", "r", " ", "t",
               "r", "y", " ", "a", "g", "a", "i", "n", " ", "l", "a", "t", "e", "r", ".">>
        ELSE IF \/ includes(lowerError, <<"e", "r", "r", "o", "r", " ", "c", "o", "d", "e",
                                          " ", "3", "2">>)
        THEN <<"F", "i", "l", "e", " ", "i", "s", " ", "i", "n", " ", "u", "s", "e", " ", "b",
               "y", " ", "a", "n", "o", "t", "h", "e", "r", " ", "p", "r", "o", "g", "r", "a",
               "m", ".", " ", "C", "l", "o", "s", "e", " ", "a", "n", "t", "u", "m", "b", "r",
               "a", ".", "e", "x", "e", " ", "a", "n", "d", " ", "t", "r", "y", " ", "a", "g",
               "a", "i", "n", ".">>
        ELSE IF \/ includes(lowerError, <<"e", "r", "r", "o", "r", " ", "c", "o", "d", "e",
                                          " ", "5">>)
        THEN <<"A", "c", "c", "e", "s", "s", " ", "d", "e", "n", "i", "e", "d", ".", " ", "R",
               "u", "n", " ", "a", "s", " ", "A", "d", "m", "i", "n", "i", "s", "t", "r", "a",
               "t", "o", "r", " ", "o", "r", " ", "a", "d", "d", " ", "e", "x", "c", "e", "p",
               "t", "i", "o", "n", " ", "i", "n", " ", "a", "n", "t", "i", "v", "i", "r", "u",
               "s", " ", "s", "o", "f", "t", "w", "a", "r", "e", ".">>
        ELSE <<"D", "o", "w", "n", "l", "o", "a", "d", " ", "a", "n", "t", "u", "m", "b", "r",
               "a", " ", "u", "p", "d", "a", "t", "e", " ", "f", "a", "i", "l", "e", "d", ":",
               " ">>
                 \o err.message

\* windowsErrorHandler.ts lines 106-127
isWindowsError(error) ==
    LET err == parseTauriError(error)
        lowerError == toLowerCase(err.message)
    IN  \/ err.category = Str_permission
        \/ err.category = Str_filesystem
        \/ includes(lowerError, <<"s", "h", "a", "r", "i", "n", "g", " ", "v", "i", "o", "l",
                                  "a", "t", "i", "o", "n">>)
        \/ includes(lowerError, <<"a", "c", "c", "e", "s", "s", " ", "d", "e", "n", "i", "e",
                                  "d">>)
        \/ includes(lowerError, <<"f", "i", "l", "e", " ", "i", "n", " ", "u", "s", "e">>)
        \/ includes(lowerError, <<"e", "r", "r", "o", "r", " ", "c", "o", "d", "e">>)
        \/ includes(lowerError, <<"d", "i", "s", "k", " ", "f", "u", "l", "l">>)
        \/ includes(lowerError, <<"p", "e", "r", "m", "i", "s", "s", "i", "o", "n", " ", "d",
                                  "e", "n", "i", "e", "d">>)
        \/ includes(lowerError, <<"p", "a", "t", "h", " ", "n", "o", "t", " ", "f", "o", "u",
                                  "n", "d">>)
        \/ includes(lowerError, <<"a", "n", "t", "u", "m", "b", "r", "a", ".", "e", "x", "e">>)

\* windowsErrorHandler.ts lines 133-174: the four groups of steps, each pushed when its condition holds
getTroubleshootingSteps(error) ==
    LET err == parseTauriError(error)
        lowerError == toLowerCase(err.message)
        InstanceSteps ==
            IF \/ err.category = Str_permission
               \/ includes(lowerError, <<"f", "i", "l", "e", " ", "i", "n", " ", "u", "s", "e">>)
               \/ includes(lowerError, <<"s", "h", "a", "r", "i", "n", "g", " ", "v", "i", "o",
                                         "l", "a", "t", "i", "o", "n">>)
               \/ includes(lowerError, <<"e", "r", "r", "o", "r", " ", "c", "o", "d", "e", " ",
                                         "3", "2">>)
            THEN << <<"C", "l", "o", "s", "e", " ", "a", "n", "y", " ", "r", "u", "n", "n",
                      "i", "n", "g", " ", "i", "n", "s", "t", "a", "n", "c", "e", "s", " ",
                      "o", "f", " ", "a", "n", "t", "u", "m", "b", "r", "a", ".", "e", "x",
                      "e">>,
                    <<"C", "h", "e", "c", "k", " ", "T", "a", "s", "k", " ", "M", "a", "n",
                      "a", "g", "e", "r", " ", "f", "o", "r", " ", "a", "n", "t", "u", "m",
                      "b", "r", "a", ".", "e", "x", "e", " ", "p", "r", "o", "c", "e", "s",
                      "s", "e", "s">>,
                    <<"T", "r", "y", " ", "u", "p", "d", "a", "t", "i", "n", "g", " ", "a",
                      "g", "a", "i", "n", " ", "a", "f", "t", "e", "r", " ", "c", "l", "o",
                      "s", "i", "n", "g", " ", "a", "l", "l", " ", "i", "n", "s", "t", "a",
                      "n", "c", "e", "s">> >>
            ELSE <<>>
        AdministratorSteps ==
            IF \/ err.category = Str_permission
               \/ includes(lowerError, <<"a", "c", "c", "e", "s", "s", " ", "d", "e", "n", "i",
                                         "e", "d">>)
               \/ includes(lowerError, <<"p", "e", "r", "m", "i", "s", "s", "i", "o", "n">>)
               \/ includes(lowerError, <<"e", "r", "r", "o", "r", " ", "c", "o", "d", "e", " ",
                                         "5">>)
            THEN << <<"R", "u", "n", " ", "P", "e", "n", "u", "m", "b", "r", "a", "W", "r",
                      "a", "p", "p", "e", "r", " ", "a", "s", " ", "A", "d", "m", "i", "n",
                      "i", "s", "t", "r", "a", "t", "o", "r">>,
                    <<"C", "h", "e", "c", "k", " ", "i", "f", " ", "a", "n", "t", "i", "v",
                      "i", "r", "u", "s", " ", "s", "o", "f", "t", "w", "a", "r", "e", " ",
                      "i", "s", " ", "b", "l", "o", "c", "k", "i", "n", "g", " ", "t", "h",
                      "e", " ", "a", "p", "p", "l", "i", "c", "a", "t", "i", "o", "n">>,
                    <<"A", "d", "d", " ", "P", "e", "n", "u", "m", "b", "r", "a", "W", "r",
                      "a", "p", "p", "e", "r", " ", "t", "o", " ", "a", "n", "t", "i", "v",
                      "i", "r", "u", "s", " ", "e", "x", "c", "e", "p", "t", "i", "o", "n",
                      "s", " ", "l", "i", "s", "t">> >>
            ELSE <<>>
        NetworkSteps ==
            IF \/ err.category = Str_network
               \/ includes(lowerError, <<"n", "e", "t", "w", "o", "r", "k">>)
               \/ includes(lowerError, <<"g", "i", "t", "h", "u", "b">>)
            THEN << <<"C", "h", "e", "c", "k", " ", "y", "o", "u", "r", " ", "i", "n", "t",
                      "e", "r", "n", "e", "t", " ", "c", "o", "n", "n", "e", "c", "t", "i",
                      "o", "n">>,
                    <<"T", "r", "y", " ", "d", "i", "s", "a", "b", "l", "i", "n", "g", " ",
                      "V", "P", "N", " ", "t", "e", "m", "p", "o", "r", "a", "r", "i", "l",
                      "y">>,
                    <<"C", "h", "e", "c", "k", " ", "W", "i", "n", "d", "o", "w", "s", " ",
                      "F", "i", "r", "e", "w", "a", "l", "l", " ", "s", "e", "t", "t", "i",
                      "n", "g", "s">>,
                    <<"T", "r", "y", " ", "u", "p", "d", "a", "t", "i", "n", "g", " ", "a",
                      "g", "a", "i", "n", " ", "i", "n", " ", "a", " ", "f", "e", "w", " ",
                      "m", "i", "n", "u", "t", "e", "s">> >>
            ELSE <<>>
        DiskSteps ==
            IF \/ err.category = Str_filesystem
               \/ includes(lowerError, <<"d", "i", "s", "k", " ", "f", "u", "l", "l">>)
            THEN << <<"C", "h", "e", "c", "k", " ", "a", "v", "a", "i", "l", "a", "b", "l",
                      "e", " ", "d", "i", "s", "k", " ", "s", "p", "a", "c", "e">>,
                    <<"C", "l", "e", "a", "n", " ", "u", "p", " ", "t", "e", "m", "p", "o",
                      "r", "a", "r", "y", " ", "f", "i", "l", "e", "s">>,
                    <<"F", "r", "e", "e", " ", "u", "p", " ", "s", "p", "a", "c", "e", " ",
                      "o", "n", " ", "y", "o", "u", "r", " ", "s", "y", "s", "t", "e", "m",
                      " ", "d", "r", "i", "v", "e">> >>
            ELSE <<>>
    IN  InstanceSteps \o AdministratorSteps \o NetworkSteps \o DiskSteps

\* updateStore.ts lines 89-95: steps.forEach, from the step of the given index on
RECURSIVE AddStepLogs(_, _, _, _)
AddStepLogs(c, steps, index, dateNow) ==
    IF index > Len(steps) THEN c
    ELSE AddStepLogs(StoreAddLog(c, [ timestamp |-> toISOString(dateNow), level |-> "info",
                                      message |-> <<"T", "r", "o", "u", "b", "l", "e", "s", "h",
                                                "o", "o", "t", "i", "n", "g", " ", "s", "t",
                                                "e", "p", " ">>
                                                  \o NumberToString(index) \o <<":", " ">>
                                                  \o steps[index] ]),
                     steps, index + 1, dateNow)

\* updateStore.ts lines 79-84: the options handle is called with
DownloadErrorOptions(error) ==
    ErrorOptions(<<>>, <<FALSE>>, WindowsErrorHandler_getErrorSuggestion(error))

\* updateStore.ts lines 78-97: the catch block of downloadUpdate; when parseTauriError throws (line
\* 79, inside getErrorSuggestion) the exception leaves the block before any call
DownloadUpdateCatch(c, error, dateNow) ==
    IF Throws(parseTauriError(error)) THEN c
    ELSE LET handledCtx == ErrorHandler_handle(c, error,
                                               <<"D", "o", "w", "n", "l", "o", "a", "d", " ",
                                                 "a", "n", "t", "u", "m", "b", "r", "a", " ",
                                                 "u", "p", "d", "a", "t", "e">>,
                                               DownloadErrorOptions(error), dateNow)
         IN  IF isWindowsError(error)
             THEN AddStepLogs(handledCtx, getTroubleshootingSteps(error), 1, dateNow)
             ELSE handledCtx

(***************************************************************************)
(* Inputs                                                                  *)
(***************************************************************************)
ReadingSector1 ==
    <<"R", "e", "a", "d", "i", "n", "g", " ", "s", "e", "c", "t", "o", "r", " ", "1">>

ReadingSector2 ==
    <<"R", "e", "a", "d", "i", "n", "g", " ", "s", "e", "c", "t", "o", "r", " ", "2">>

Done == <<"D", "o", "n", "e">>

DiskFull == <<"d", "i", "s", "k", " ", "f", "u", "l", "l">>

Op1 == <<"o", "p", "-", "1">>

Op2 == <<"o", "p", "-", "2">>

Nvram == <<"n", "v", "r", "a", "m">>

Size4M == <<"4", " ", "M", "i", "B">>

\* instants sampled around the dedup window
Instants == {0, 499, 500}

Timestamps == {toISOString(t) : t \in Instants}

OutputPayloads ==
    { [ operation_id |-> Op1, line |-> ReadingSector1, timestamp |-> toISOString(0),
        is_stderr |-> FALSE ],
      [ operation_id |-> Op1, line |-> ReadingSector2, timestamp |-> toISOString(0),
        is_stderr |-> FALSE ],
      [ operation_id |-> Op1, line |-> ReadingSector2, timestamp |-> toISOString(499),
        is_stderr |-> TRUE ],
      [ operation_id |-> Op1, line |-> Done, timestamp |-> toISOString(0),
        is_stderr |-> FALSE ] }

CompletePayloads ==
    { [ operation_id |-> Op1, success |-> TRUE, error |-> Null ],
      [ operation_id |-> Op2, success |-> FALSE, error |-> DiskFull ] }

LogInputs ==
    { [ timestamp |-> toISOString(0), level |-> "info", message |-> ReadingSector1 ],
      [ timestamp |-> toISOString(500), level |-> "info", message |-> ReadingSector1 ],
      [ timestamp |-> InvalidDate, level |-> "warning", message |-> ReadingSector1 ] }

StartInputs == { <<"read", Nvram, Size4M, Op1>>, <<"write", Nvram, <<>>, Null>> }

FinishInputs == { <<TRUE, Null>>, <<FALSE, DiskFull>>, <<FALSE, <<>> >> }

ProgressInputs ==
    { [ current |-> 1, total |-> 2, percentage |-> 50, partition_name |-> Nvram,
        operation |-> "read" ] }

\* The i-th entry of a log sequence of n entries, as n addLog calls of alternating
\* lines leave it.  These calls precede the history: their ordinals are -(n-1)..0.
Boom == <<"b", "o", "o", "m">>

NetworkTimeout == <<"N", "e", "t", "w", "o", "r", "k", " ", "t", "i", "m", "e", "o", "u", "t">>

NoDevice == <<"N", "o", " ", "d", "e", "v", "i", "c", "e">>

\* what run may reject with: nothing, a native Error, plain strings without and with a
\* category keyword, and a structured error of the backend
ErrorValues ==
    { ErrorValue("null", Null, Null, Null, Null, Null),
      ErrorValue("Error", Null, Null, DiskFull, Null, Null),
      ErrorValue("string", Boom, Null, Null, Null, Null),
      ErrorValue("string", NetworkTimeout, Null, Null, Null, Null),
      ErrorValue("object", Null,
                 <<"d", "e", "v", "i", "c", "e", "_", "n", "o", "t", "_", "c", "o", "n", "n",
                   "e", "c", "t", "e", "d">>,
                 NoDevice, Null, Null) }

\* what a partition read of the bulk backup rejects with: what the backend sends
BackupErrorValues == { ErrorValue("string", Boom, Null, Null, Null, Null) }

RejectionsOf(caller) == IF caller = "backup" THEN BackupErrorValues ELSE ErrorValues

\* failure values of every shape parseTauriError distinguishes
Err_Null == ErrorValue("null", Null, Null, Null, Null, Null)

\* new Error("disk full"): its message has a filesystem keyword
Err_Native == ErrorValue("Error", Null, Null, DiskFull, Null, Null)

\* new Error("")
Err_NativeEmpty == ErrorValue("Error", Null, Null, <<>>, Null, Null)

Err_String == ErrorValue("string", Boom, Null, Null, Null, Null)

Err_StringNetwork == ErrorValue("string", NetworkTimeout, Null, Null, Null, Null)

\* { type: "device_not_connected", message: "No device" }
Err_Structured ==
    ErrorValue("object", Null,
               <<"d", "e", "v", "i", "c", "e", "_", "n", "o", "t", "_", "c", "o", "n", "n",
                 "e", "c", "t", "e", "d">>,
               NoDevice, Null, Null)

\* { type: "io", message: "disk full", category: "FileSystem",
\*   suggestion: "Reconnect the device", code: 5, output: "command output" }
Err_StructuredFull ==
    [ ErrorValue("object", Null, <<"i", "o">>, DiskFull,
                 <<"F", "i", "l", "e", "S", "y", "s", "t", "e", "m">>,
                 <<"R", "e", "c", "o", "n", "n", "e", "c", "t", " ", "t", "h", "e", " ", "d",
                   "e", "v", "i", "c", "e">>)
      EXCEPT !.code = <<5>>,
             !.output = <<"c", "o", "m", "m", "a", "n", "d", " ", "o", "u", "t", "p", "u",
                          "t">> ]

\* { type: "io", message: "Network timeout", category: "bogus" }
Err_StructuredOddCategory ==
    ErrorValue("object", Null, <<"i", "o">>, NetworkTimeout, <<"b", "o", "g", "u", "s">>,
               Null)

\* { type: "io", message: "No device", category: "permission" }
Err_StructuredPermission ==
    ErrorValue("object", Null, <<"i", "o">>, NoDevice, Str_permission, Null)

\* { type: "io", message: "No device", category: "validation" }
Err_StructuredValidation ==
    ErrorValue("object", Null, <<"i", "o">>, NoDevice, Str_validation, Null)

\* { type: "io" }
Err_StructuredBare == ErrorValue("object", Null, <<"i", "o">>, Null, Null, Null)

\* { message: "disk full" }
Err_MessageOnly == ErrorValue("object", Null, Null, DiskFull, Null, Null)

\* { a: 1 }
Err_PlainObject ==
    ErrorValue("object", <<"{", "\"", "a", "\"", ":", "1", "}">>, Null, Null, Null, Null)

\* an object JSON.stringify throws on (a cycle)
Err_Cyclic == ErrorValue("object", Null, Null, Null, Null, Null)

\* { type: "io", message: "disk full", category: 5 }
Err_StructuredNumericCategory ==
    ErrorValue("object", Null, <<"i", "o">>, DiskFull, NumberValue(5), Null)

\* the number 42
Err_Number == ErrorValue("other", <<"4", "2">>, Null, Null, Null, Null)

ClassifierInputs ==
    { Err_Null, Err_Native, Err_NativeEmpty, Err_String, Err_StringNetwork, Err_Structured,
      Err_StructuredFull, Err_StructuredOddCategory, Err_StructuredPermission,
      Err_StructuredValidation, Err_StructuredBare,
      Err_StructuredNumericCategory, Err_MessageOnly, Err_PlainObject, Err_Cyclic,
      Err_Number }

\* messages for the keyword categoriser: one or two keywords of each group, keywords of
\* two groups in one message, and the keywords "github" and "antumbra"
Msg_NetworkTimeoutConnecting ==
    <<"N", "e", "t", "w", "o", "r", "k", " ", "t", "i", "m", "e", "o", "u", "t", " ", "w", "h",
      "i", "l", "e", " ", "c", "o", "n", "n", "e", "c", "t", "i", "n", "g">>

Msg_FileDownload ==
    <<"f", "i", "l", "e", " ", "d", "o", "w", "n", "l", "o", "a", "d", " ", "f", "a", "i", "l",
      "e", "d">>

Msg_GitHub ==
    <<"G", "i", "t", "H", "u", "b", " ", "r", "a", "t", "e", " ", "l", "i", "m", "i", "t">>

Msg_AccessDenied == <<"A", "c", "c", "e", "s", "s", " ", "d", "e", "n", "i", "e", "d">>

Msg_PathNotFound == <<"p", "a", "t", "h", " ", "n", "o", "t", " ", "f", "o", "u", "n", "d">>

Msg_Antumbra == <<"a", "n", "t", "u", "m", "b", "r", "a", " ", "e", "x", "i", "t", "e", "d">>

Msg_CommandFailed == <<"C", "o", "m", "m", "a", "n", "d", " ", "f", "a", "i", "l", "e", "d">>

Msg_Checksum ==
    <<"c", "h", "e", "c", "k", "s", "u", "m", " ", "m", "i", "s", "m", "a", "t", "c", "h">>

KeywordMessages ==
    { Msg_NetworkTimeoutConnecting, Msg_FileDownload, Msg_GitHub, Msg_AccessDenied,
      Msg_PathNotFound, Msg_Antumbra, Msg_CommandFailed, Msg_Checksum }

\* the messages as failure values: rejections with a plain string
KeywordInputs == { ErrorValue("string", m, Null, Null, Null, Null) : m \in KeywordMessages }

\* the options of the direct callers: none, and { addToOperationLog: false }
HandleOptions == { ErrorOptions(<<>>, <<>>, Null), ErrorOptions(<<>>, <<FALSE>>, Null) }

\* the option profiles of the single-operation callers: a read with the default
\* success message, a read with its own success message, and the seccfg unlock with a
\* start hook and an error message override
UiOptions ==
    { ExecuteOptions(<<"R", "e", "a", "d">>, "read", Nvram, Size4M, Null, <<>>, <<>>, Null,
                     <<>>, Null, <<>>, Null),
      ExecuteOptions(<<"R", "e", "a", "d">>, "read", Nvram, Size4M, Null, <<>>, <<>>, Done,
                     <<>>, Null, <<>>, Null),
      ExecuteOptions(<<"S", "e", "c", "c", "f", "g", " ", "u", "n", "l", "o", "c", "k">>,
                     "write",
                     <<"s", "e", "c", "c", "f", "g", "-", "u", "n", "l", "o", "c", "k">>,
                     <<"b", "o", "o", "t", "l", "o", "a", "d", "e", "r">>, Null, <<>>, <<>>,
                     <<"B", "o", "o", "t", "l", "o", "a", "d", "e", "r", " ", "u", "n", "l",
                       "o", "c", "k", "e", "d", " ", "s", "u", "c", "c", "e", "s", "s", "f",
                       "u", "l", "l", "y", "!">>,
                     <<>>,
                     <<"F", "a", "i", "l", "e", "d", " ", "t", "o", " ", "u", "n", "l", "o",
                       "c", "k", " ", "b", "o", "o", "t", "l", "o", "a", "d", "e", "r">>,
                     <<>>,
                     <<"S", "t", "a", "r", "t", "i", "n", "g", " ", "s", "e", "c", "c", "f",
                       "g", " ", "u", "n", "l", "o", "c", "k", ".", ".", ".">>) }

\* the critical partitions found on the device, in list order
Partitions ==
    << [name |-> Nvram, display_size |-> Size4M],
       [name |-> <<"n", "v", "d", "a", "t", "a">>,
        display_size |-> <<"6", "4", " ", "M", "i", "B">>],
       [name |-> <<"p", "r", "o", "i", "n", "f", "o">>,
        display_size |-> <<"3", " ", "M", "i", "B">>] >>

\* output lines with and without the level keywords, in several cases and combinations
LevelLines ==
    { <<"E", "R", "R", "O", "R">>,
      <<"w", "r", "i", "t", "e", " ", "f", "a", "i", "l", "e", "d">>,
      <<"W", "a", "r", "n", "i", "n", "g">>,
      <<"w", "a", "r", "n">>,
      <<"S", "u", "c", "c", "e", "s", "s">>,
      <<"c", "o", "m", "p", "l", "e", "t", "e">>,
      <<"f", "o", "u", "n", "d">>,
      <<"f", "a", "i", "l", "e", "d", " ", "s", "u", "c", "c", "e", "s", "s">>,
      <<"w", "a", "r", "n", "i", "n", "g", ":", " ", "n", "o", "t", " ", "f", "o", "u", "n",
        "d">>,
      Done }

\* each line on stdout and on stderr, stamped by the backend at instant 499
LevelPayloads ==
    { [ operation_id |-> Op1, line |-> line, timestamp |-> toISOString(499),
        is_stderr |-> is_stderr ] : line \in LevelLines, is_stderr \in BOOLEAN }

FilledEntry(n, i) ==
    [ id |-> uuidv4(i), timestamp |-> toISOString(0), level |-> "info",
      message |-> IF i % 2 = 1 THEN <<"a">> ELSE <<"b">>,
      call |-> i - n ]

FilledLogs(n) == [ i \in 1..n |-> FilledEntry(n, i) ]

StripId(e) == [f \in DOMAIN e \ {"id"} |-> e[f]]

(***************************************************************************)
(* Device connection (useDeviceConnection, deviceStore, partitionStore).   *)
(* The cancel request of disconnect is a promise that settles later; what  *)
(* the state keeps of it is the number of requests and the number of       *)
(* rejections no handler was attached to.                                  *)
(***************************************************************************)
ConnectedDevice ==
    [ isConnected |-> TRUE, connectionError |-> Null, partitions |-> Partitions,
      selectedPartition |-> Null, cancelRequests |-> 0, unhandledRejections |-> 0 ]

\* disconnect without the .catch on the cancel request
disconnect_Uncaught(d, cancelRejects) ==
    [ d EXCEPT !.cancelRequests = @ + 1,
               !.unhandledRejections = IF cancelRejects THEN @ + 1 ELSE @,
               !.isConnected = FALSE, !.connectionError = Null,
               !.partitions = <<>>, !.selectedPartition = Null ]

\* useDeviceConnection lines 82-86: DeviceApi.cancelOperation().catch(() => undefined),
\* the store's disconnect (deviceStore.ts lines 82-86) and clearPartitions
\* (partitionStore.ts line 27)
disconnect(d, cancelRejects) ==
    [ d EXCEPT !.cancelRequests = @ + 1,
               !.isConnected = FALSE, !.connectionError = Null,
               !.partitions = <<>>, !.selectedPartition = Null ]

(***************************************************************************)
(* Registry entry points and listener callbacks as atomic steps            *)
(***************************************************************************)
\* History of the run "start, then output events with pairwise distinct lines, then
\* a successful completion event" from a store with no logs: the phase reached and
\* the lines delivered, in arrival order.  Any other step ends the run.
ScenarioFresh == [phase |-> "fresh", lines |-> <<>>]

ScenarioOff == [phase |-> "off", lines |-> <<>>]

ScenarioStep(sc, op) ==
    IF sc.phase = "fresh" /\ op.name = "startOperation"
    THEN [phase |-> "started", lines |-> <<>>]
    ELSE IF /\ sc.phase = "started"
            /\ op.name = "output"
            /\ \A i \in 1..Len(sc.lines) : sc.lines[i] # op.payload.line
    THEN [phase |-> "started", lines |-> Append(sc.lines, op.payload.line)]
    ELSE IF sc.phase = "started" /\ op.name = "complete" /\ op.payload.success
    THEN [phase |-> "completed", lines |-> sc.lines]
    ELSE IF op.name = "clearOperation"
    THEN ScenarioFresh
    ELSE ScenarioOff

IdleExec ==
    [ pc |-> "idle", caller |-> "none", options |-> <<>>, operationId |-> Null,
      onStartArg |-> Null, runArg |-> Null, rejection |-> <<>>, result |-> <<>>,
      launches |-> 0 ]

IdleBackup ==
    [ pc |-> "idle", i |-> 1, successCount |-> 0, failCount |-> 0, started |-> <<>>,
      outcomes |-> <<>>, cancelReason |-> "null" ]

\* an awaiting caller's continuation is ready to run: no event is handled before it
ContinuationRunnable ==
    \/ backup.pc = "loop"
    \/ backup.pc = "awaiting" /\ exec.pc = "returned"

\* one environment step: the store, the uuid source and the history change
EnvStep(c, op) ==
    /\ ~ContinuationRunnable
    /\ budget > 0
    /\ budget' = budget - 1
    /\ store' = c.s
    /\ uuidCount' = c.n
    /\ calls' = c.calls
    /\ scenario' = ScenarioStep(scenario, op)
    /\ UNCHANGED <<dialog, listener, handled, device, isLogPanelOpen, now, exec, backup, aborted>>

Here == Ctx(store, uuidCount, calls)

StartOperation ==
    \E a \in StartInputs :
        EnvStep(Ctx(startOperation(store, a[1], a[2], a[3], a[4], now), uuidCount, calls),
                [name |-> "startOperation", args |-> a])

SetOperationId ==
    \E id \in {Op2} :
        EnvStep(Ctx(setOperationId(store, id), uuidCount, calls),
                [name |-> "setOperationId", operationId |-> id])

SetIsStreaming ==
    \E b \in BOOLEAN :
        EnvStep(Ctx(setIsStreaming(store, b), uuidCount, calls),
                [name |-> "setIsStreaming", isStreaming |-> b])

UpdateProgress ==
    \E p \in ProgressInputs :
        EnvStep(Ctx(updateProgress(store, p), uuidCount, calls),
                [name |-> "updateProgress", progress |-> p])

AddLog ==
    \E log \in LogInputs :
        EnvStep(StoreAddLog(Here, log), [name |-> "addLog", log |-> log])

ClearLogs ==
    EnvStep(StoreClearLogs(Here), [name |-> "clearLogs"])

FinishOperation ==
    \E a \in FinishInputs :
        EnvStep(Ctx(finishOperation(store, a[1], a[2]), uuidCount, calls),
                [name |-> "finishOperation", args |-> a])

ClearOperation ==
    EnvStep(Ctx(clearOperation(store), uuidCount, <<>>), [name |-> "clearOperation"])

OutputEvent ==
    \E payload \in OutputPayloads :
        EnvStep(OutputCallback(Here, listener.isMounted, payload),
                [name |-> "output", payload |-> payload])

CompleteEvent ==
    \E payload \in CompletePayloads :
        EnvStep(Ctx(CompleteCallback(store, listener.isMounted, payload), uuidCount, calls),
                [name |-> "complete", payload |-> payload])

(***************************************************************************)
(* Confirmation dialog (ConfirmationProvider and ConfirmationModal).       *)
(* A promise returned by confirm() is its index in dialog.promises; the    *)
(* resolver the provider keeps is the index of its promise, 0 for null.    *)
(* countdown is <<>> for null and <<n>> for the number n.  shown is history *)
(* of the content on display: whether the countdown was null when confirm()*)
(* showed it, and the one-second steps the countdown has made since.       *)
(***************************************************************************)
Variants == {"danger", "warning", "info"}

\* the provider before the first confirm() call: the modal is not rendered yet
InitDialogState ==
    [ mounted           |-> TRUE,
      isOpen            |-> FALSE,
      options           |-> <<>>,
      resolvePromiseRef |-> 0,
      promises          |-> <<>>,
      countdown         |-> <<>>,
      resetTimer        |-> FALSE,
      shown             |-> [fresh |-> TRUE, ticks |-> 0] ]

\* const isDestructive = variant === 'danger'
isDestructive(d) == d.options = <<"danger">>

\* the dependency list [isOpen, isDestructive] of the countdown-initialising effect;
\* the effect also runs when the modal is first rendered (options was null)
CountdownEffectDeps(d) == <<d.options # <<>>, d.isOpen, isDestructive(d)>>

\* a render after the provider's state changed from before to after: the effect
\* runs again (its cleanup clears the pending timer, a new one is set) only when a
\* dependency changed
RenderModal(before, after) ==
    IF CountdownEffectDeps(before) # CountdownEffectDeps(after)
    THEN [after EXCEPT !.resetTimer = TRUE]
    ELSE after

\* if (resolvePromiseRef.current) { resolvePromiseRef.current(value); ... = null }
ResolveCurrent(d, value) ==
    IF d.resolvePromiseRef # 0
    THEN [d EXCEPT !.promises[d.resolvePromiseRef] =
                       IF @ = "pending" THEN value ELSE @,
                   !.resolvePromiseRef = 0]
    ELSE d

\* confirm(confirmOptions): the options and the open flag are set and a new promise
\* is returned whose resolver replaces whatever resolvePromiseRef held
confirm(d, variant) ==
    RenderModal(d,
        [d EXCEPT !.options = <<variant>>,
                  !.isOpen = TRUE,
                  !.promises = Append(@, "pending"),
                  !.resolvePromiseRef = Len(d.promises) + 1,
                  !.shown = [fresh |-> d.countdown = <<>>, ticks |-> 0]])

handleClose(d) == RenderModal(d, ResolveCurrent([d EXCEPT !.isOpen = FALSE], "false"))

handleConfirm(d) == RenderModal(d, ResolveCurrent([d EXCEPT !.isOpen = FALSE], "true"))

\* the cleanup of the provider's mount effect; the modal goes with the provider and
\* the cleanups of its effects clear its timers
UnmountProvider(d) ==
    [ResolveCurrent(d, "false") EXCEPT !.mounted = FALSE, !.resetTimer = FALSE]

\* const isConfirmDisabled = isLoading || (isDestructive && countdown !== 0), and
\* the Enter key's condition !isLoading && (countdown === 0 || !isDestructive);
\* the provider never passes isLoading, which defaults to false
isConfirmDisabled(d) == isDestructive(d) /\ d.countdown # <<0>>

\* the timer of the countdown-initialising effect: setCountdown(2) or setCountdown(null)
CountdownReset(d) ==
    IF d.isOpen /\ isDestructive(d)
    THEN [d EXCEPT !.countdown = <<2>>, !.resetTimer = FALSE, !.shown.ticks = 0]
    ELSE [d EXCEPT !.countdown = <<>>, !.resetTimer = FALSE]

\* the one-second timer of the countdown effect: setCountdown(countdown - 1)
CountdownTick(d) ==
    [d EXCEPT !.countdown = <<d.countdown[1] - 1>>,
              !.shown.ticks = IF @ < 2 THEN @ + 1 ELSE @]

(***************************************************************************)
(* SpecRegistry: every sequence of at most MaxRegistrySteps Registry entry *)
(* points and listener callbacks, from the fresh store and from a store    *)
(* whose log sequence is one entry short of MAX_LOGS.                      *)
(***************************************************************************)
MaxRegistrySteps == 4

MaxFilledSteps == 2

MaxLaunches == 1

MaxEvents == 1

InitRegistry ==
    /\ \/ /\ store = InitStore
          /\ uuidCount = 0
          /\ calls = <<>>
          /\ budget = MaxRegistrySteps
       \/ /\ store = [InitStore EXCEPT !.logs = FilledLogs(MAX_LOGS - 1)]
          /\ uuidCount = MAX_LOGS - 1
          /\ calls = <<>>
          /\ budget = MaxFilledSteps
    /\ isLogPanelOpen = FALSE
    /\ now = 0
    /\ exec = IdleExec
    /\ backup = IdleBackup
    /\ aborted = FALSE
    /\ listener = SubscribedListener
    /\ handled = <<>>
    /\ device = ConnectedDevice
    /\ dialog = InitDialogState
    /\ scenario = IF store.logs = <<>> THEN ScenarioFresh ELSE ScenarioOff

NextRegistry ==
    \/ StartOperation
    \/ SetOperationId
    \/ SetIsStreaming
    \/ UpdateProgress
    \/ AddLog
    \/ ClearLogs
    \/ FinishOperation
    \/ ClearOperation
    \/ OutputEvent
    \/ CompleteEvent

SpecRegistry == InitRegistry /\ [][NextRegistry]_vars

(***************************************************************************)
(* Launcher and bulk backup as steps.  JavaScript runs each callback to    *)
(* completion and resumes an awaiting caller in a microtask, before any    *)
(* event, timer or user input is handled: the steps of one such chain are  *)
(* separate actions here, and nothing else is enabled between them         *)
(* (ContinuationRunnable).  One launcher call is in flight at a time.      *)
(***************************************************************************)
NewBackup ==
    [ pc |-> "loop", i |-> 1, successCount |-> 0, failCount |-> 0, started |-> <<>>,
      outcomes |-> <<>>, cancelReason |-> "null" ]

InFlight(caller, options, operationId, launches) ==
    [ pc |-> "awaiting", caller |-> caller, options |-> <<options>>,
      operationId |-> operationId,
      onStartArg |-> IF options.onStart # Null THEN operationId ELSE Null,
      runArg |-> operationId, rejection |-> <<>>, result |-> <<>>, launches |-> launches ]

LaunchStep(r, options, caller, launches) ==
    /\ store' = r.s
    /\ uuidCount' = r.n
    /\ calls' = r.calls
    /\ exec' = InFlight(caller, options, r.operationId, launches)
    /\ isLogPanelOpen' = IF Default(options.openLogPanel, TRUE) THEN TRUE ELSE isLogPanelOpen
    /\ scenario' = ScenarioOff

\* a single-operation caller invokes executeOperation: its synchronous part
Execute ==
    \E options \in UiOptions :
        /\ device.isConnected
        /\ exec.pc # "awaiting"
        /\ backup.pc \in {"idle", "done"}
        /\ exec.launches < MaxLaunches
        /\ LaunchStep(ExecuteBegin(Here, options, now), options, "ui", exec.launches + 1)
        /\ UNCHANGED <<dialog, listener, handled, device, now, backup, aborted, budget>>

SettleStep(c, result, rejection, outcome) ==
    /\ store' = c.s
    /\ uuidCount' = c.n
    /\ calls' = c.calls
    /\ exec' = [exec EXCEPT !.pc = "returned", !.result = <<result>>,
                            !.rejection = rejection]
    /\ backup' = IF exec.caller = "backup"
                 THEN [backup EXCEPT !.outcomes = Append(@, outcome)]
                 ELSE backup
    /\ scenario' = ScenarioOff
    /\ UNCHANGED <<dialog, listener, handled, device, isLogPanelOpen, now, aborted, budget>>

\* run's promise resolves: the rest of the try block, and the return
RunResolve ==
    /\ exec.pc = "awaiting"
    /\ SettleStep(ExecuteTry(Here, exec.options[1], now),
                  [operationId |-> exec.operationId, success |-> TRUE], <<>>, "resolved")

\* run's promise rejects: the catch block, and the return
RunReject ==
    \E error \in RejectionsOf(exec.caller) :
        /\ exec.pc = "awaiting"
        /\ SettleStep(ExecuteCatch(Here, exec.options[1], error, now),
                      [operationId |-> exec.operationId, success |-> FALSE], <<error>>,
                      "rejected")

\* handleFastBackup after the confirmation, lines 279-292
BackupBegin ==
    /\ device.isConnected
    /\ backup.pc = "idle"
    /\ exec.pc # "awaiting"
    /\ LET c == StoreAddLog(StoreClearLogs(Here),
                            [ timestamp |-> toISOString(now), level |-> "info",
                              message |-> StartingBackupMessage(Len(Partitions)) ])
       IN  /\ store' = c.s
           /\ uuidCount' = c.n
           /\ calls' = c.calls
    /\ isLogPanelOpen' = TRUE
    /\ aborted' = FALSE
    /\ backup' = NewBackup
    /\ scenario' = ScenarioOff
    /\ UNCHANGED <<dialog, listener, handled, device, now, exec, budget>>

\* the loop body without the check of the abort signal
BackupNext_IgnoreAbort ==
    /\ backup.pc = "loop"
    /\ backup.i <= Len(Partitions)
    /\ LET partition == Partitions[backup.i]
           operationId == uuidv4(uuidCount + 1)
           options == BackupOptions(partition, operationId)
       IN  /\ LaunchStep(ExecuteBegin(Ctx(store, uuidCount + 1, calls), options, now),
                         options, "backup", exec.launches)
           /\ backup' = [backup EXCEPT !.pc = "awaiting",
                                       !.started = Append(@, partition.name)]
    /\ UNCHANGED <<dialog, listener, handled, device, now, aborted, budget>>

\* the loop body up to the await, lines 294-337, when the signal is not aborted
BackupNext ==
    /\ backup.pc = "loop"
    /\ backup.i <= Len(Partitions)
    /\ ~aborted
    /\ LET partition == Partitions[backup.i]
           operationId == uuidv4(uuidCount + 1)
           options == BackupOptions(partition, operationId)
       IN  /\ LaunchStep(ExecuteBegin(Ctx(store, uuidCount + 1, calls), options, now),
                         options, "backup", exec.launches)
           /\ backup' = [backup EXCEPT !.pc = "awaiting",
                                       !.started = Append(@, partition.name)]
    /\ UNCHANGED <<dialog, listener, handled, device, now, aborted, budget>>

\* the loop's abort check, lines 296-310, and what follows the break, lines 348-357
BackupCancelled ==
    /\ backup.pc = "loop"
    /\ backup.i <= Len(Partitions)
    /\ aborted
    /\ LET c == StoreAddLog(Here, [ timestamp |-> toISOString(now), level |-> "warning",
                                    message |-> CancelMessage(backup.cancelReason) ])
       IN  /\ store' = c.s
           /\ uuidCount' = c.n
           /\ calls' = c.calls
    /\ backup' = [backup EXCEPT !.pc = "done"]
    /\ scenario' = ScenarioOff
    /\ UNCHANGED <<dialog, listener, handled, device, isLogPanelOpen, now, exec, aborted, budget>>

\* the loop ran out of partitions, lines 348-357
BackupSummary ==
    /\ backup.pc = "loop"
    /\ backup.i > Len(Partitions)
    /\ backup' = [backup EXCEPT !.pc = "done"]
    /\ UNCHANGED <<dialog, listener, handled, device, store, isLogPanelOpen, now, uuidCount, exec, aborted, calls, scenario,
                   budget>>

\* executeOperation returned to the loop, lines 339-345
BackupResume ==
    /\ backup.pc = "awaiting"
    /\ exec.pc = "returned"
    /\ backup' = [AfterUnit(backup, exec.result[1].success, Len(Partitions))
                    EXCEPT !.pc = "loop"]
    /\ UNCHANGED <<dialog, listener, handled, device, store, isLogPanelOpen, now, uuidCount, exec, aborted, calls, scenario,
                   budget>>

\* disconnect() is called between two tasks (after a reboot, Dashboard.tsx lines 216 and
\* 244): the device store changes, and the effect of lines 100-105 aborts a backup that
\* is running (backupAbortController is set while the loop runs)
Disconnect ==
    \E cancelRejects \in BOOLEAN :
        /\ device.isConnected
        /\ ~ContinuationRunnable
        /\ device' = disconnect(device, cancelRejects)
        /\ IF backup.pc = "awaiting" /\ ~aborted
           THEN /\ aborted' = TRUE
                /\ backup' = [backup EXCEPT !.cancelReason = "disconnect"]
           ELSE UNCHANGED <<dialog, aborted, backup>>
        /\ UNCHANGED <<dialog, listener, handled, store, isLogPanelOpen, now, uuidCount, exec, calls,
                       scenario, budget>>

\* the disconnect that falls into a partition read of the bulk backup
DisconnectDuringBackup == backup.pc = "awaiting" /\ Disconnect

\* the dashboard unmounts while the backup waits for a partition, lines 91-97
Unmount ==
    /\ backup.pc = "awaiting"
    /\ exec.pc = "awaiting"
    /\ ~aborted
    /\ aborted' = TRUE
    /\ UNCHANGED <<dialog, listener, handled, device, store, isLogPanelOpen, now, uuidCount, exec, backup, calls, scenario,
                   budget>>

\* the clock advances
Tick ==
    \E t \in Instants :
        /\ ~ContinuationRunnable
        /\ budget > 0
        /\ budget' = budget - 1
        /\ t > now
        /\ now' = t
        /\ UNCHANGED <<dialog, listener, handled, device, store, isLogPanelOpen, uuidCount, exec, backup, aborted, calls,
                       scenario>>

(***************************************************************************)
(* Spec: the application.  The single-operation callers launch at most     *)
(* MaxLaunches operations and the bulk backup runs once over Partitions,   *)
(* while the backend delivers at most MaxEvents output and completion      *)
(* events, the clock advances, and the device may disconnect while the     *)
(* backup reads a partition (at any other moment: SpecLive).               *)
(***************************************************************************)
Init ==
    /\ store = InitStore
    /\ isLogPanelOpen = FALSE
    /\ now = 0
    /\ uuidCount = 0
    /\ exec = IdleExec
    /\ backup = IdleBackup
    /\ aborted = FALSE
    /\ listener = SubscribedListener
    /\ handled = <<>>
    /\ device = ConnectedDevice
    /\ dialog = InitDialogState
    /\ calls = <<>>
    /\ scenario = ScenarioOff
    /\ budget = MaxEvents

Next ==
    \/ Execute
    \/ RunResolve
    \/ RunReject
    \/ BackupBegin
    \/ BackupNext
    \/ BackupCancelled
    \/ BackupSummary
    \/ BackupResume
    \/ DisconnectDuringBackup
    \/ Unmount
    \/ Tick
    \/ OutputEvent
    \/ CompleteEvent

Spec == Init /\ [][Next]_vars

(***************************************************************************)
(* SpecLive: the single-operation callers alone, with the assumption that  *)
(* the promise run returned settles: the step in which it resolves or      *)
(* rejects is taken when it stays possible.  Nothing is assumed of the     *)
(* backend's events or of the clock.                                       *)
(***************************************************************************)
RunSettles == RunResolve \/ RunReject

NextLive ==
    \/ Execute
    \/ RunResolve
    \/ RunReject
    \/ Disconnect
    \/ Tick
    \/ OutputEvent
    \/ CompleteEvent

SpecLive == Init /\ [][NextLive]_vars /\ WF_vars(RunSettles)

(***************************************************************************)
(* SpecListener: one useOperationStream instance from mount to cleanup.    *)
(* Its two listen calls resolve or reject, the cleanup runs at any point,  *)
(* and the backend delivers at most MaxDeliveries events to the callbacks  *)
(* that were registered, also after the cleanup (an event queued before    *)
(* it); an operation may be started meanwhile.                             *)
(***************************************************************************)
MaxDeliveries == 2

MaxListenerSteps == 1

ListenerStep(l) ==
    /\ listener' = l
    /\ UNCHANGED <<dialog, handled, device, store, isLogPanelOpen, now, uuidCount, exec, backup, aborted, calls,
                   scenario, budget>>

\* the effect runs: setupListeners is called and calls listen('operation:output')
Mount ==
    /\ listener.pc = "unmounted"
    /\ ListenerStep([listener EXCEPT !.pc = "subscribingOutput", !.isMounted = TRUE])

\* line 45: the first listen resolves; line 70: listen('operation:complete') is called
OutputSubscribed ==
    /\ listener.pc = "subscribingOutput"
    /\ ListenerStep([listener EXCEPT !.pc = "subscribingComplete",
                                     !.unlistenOutput = TRUE,
                                     !.outputCallback = "registered"])

\* line 70: the second listen resolves, setupListeners returns
CompleteSubscribed ==
    /\ listener.pc = "subscribingComplete"
    /\ ListenerStep([listener EXCEPT !.pc = "ready", !.unlistenComplete = TRUE,
                                     !.completeCallback = "registered"])

\* a listen call rejects: setupListeners has no try, and line 80 calls it without
\* await or catch, so its promise rejects with no handler
SubscribeFails ==
    /\ listener.pc \in {"subscribingOutput", "subscribingComplete"}
    /\ ListenerStep([listener EXCEPT !.pc = "failed", !.unhandledRejection = TRUE])

\* lines 83-91: the cleanup
Teardown ==
    /\ listener.isMounted
    /\ ListenerStep(Cleanup(listener))

DeliverStep(c) ==
    /\ listener.delivered < MaxDeliveries
    /\ store' = c.s
    /\ uuidCount' = c.n
    /\ calls' = c.calls
    /\ listener' = Invoked(listener)
    /\ UNCHANGED <<dialog, handled, device, isLogPanelOpen, now, exec, backup, aborted, scenario, budget>>

\* an 'operation:output' event reaches the callback of line 45
DeliverOutput ==
    \E payload \in LevelPayloads :
        /\ listener.outputCallback # "none"
        /\ DeliverStep(OutputCallback(Here, listener.isMounted, payload))

\* an 'operation:complete' event reaches the callback of line 70
DeliverComplete ==
    \E payload \in CompletePayloads :
        /\ listener.completeCallback # "none"
        /\ DeliverStep(Ctx(CompleteCallback(store, listener.isMounted, payload),
                           uuidCount, calls))

InitListener ==
    /\ store = InitStore
    /\ isLogPanelOpen = FALSE
    /\ now = 0
    /\ uuidCount = 0
    /\ exec = IdleExec
    /\ backup = IdleBackup
    /\ aborted = FALSE
    /\ listener = UnmountedListener
    /\ handled = <<>>
    /\ device = ConnectedDevice
    /\ dialog = InitDialogState
    /\ calls = <<>>
    /\ scenario = ScenarioOff
    /\ budget = MaxListenerSteps

NextListener ==
    \/ Mount
    \/ OutputSubscribed
    \/ CompleteSubscribed
    \/ SubscribeFails
    \/ Teardown
    \/ DeliverOutput
    \/ DeliverComplete
    \/ StartOperation

SpecListener == InitListener /\ [][NextListener]_vars

(***************************************************************************)
(* SpecClassifier: a component's failure path calls ErrorHandler.handle    *)
(* directly (as the dashboard's reboot does), at most MaxHandled times,    *)
(* with a failure value of any shape.                                      *)
(***************************************************************************)
MaxHandled == 2

\* Dashboard.tsx line 218: ErrorHandler.handle(error, 'Reboot'), and the callers that
\* pass { addToOperationLog: false }
HandleError ==
    \E error \in ClassifierInputs \cup KeywordInputs, options \in HandleOptions :
        LET c == ErrorHandler_handle(Here, error, <<"R", "e", "b", "o", "o", "t">>, options,
                                     now)
        IN  /\ ~ContinuationRunnable
            /\ budget > 0
            /\ budget' = budget - 1
            /\ store' = c.s
            /\ uuidCount' = c.n
            /\ calls' = c.calls
            /\ handled' = << [ error |-> error, options |-> options,
                               returned |-> parseTauriError(error),
                               suggestion |-> IF Throws(parseTauriError(error)) THEN Null
                                              ELSE HandledSuggestion(error, options) ] >>
            /\ UNCHANGED <<dialog, scenario, listener, device, isLogPanelOpen, now, exec, backup,
                           aborted>>

InitClassifier ==
    /\ store = InitStore
    /\ isLogPanelOpen = FALSE
    /\ now = 0
    /\ uuidCount = 0
    /\ exec = IdleExec
    /\ backup = IdleBackup
    /\ aborted = FALSE
    /\ listener = SubscribedListener
    /\ handled = <<>>
    /\ device = ConnectedDevice
    /\ dialog = InitDialogState
    /\ calls = <<>>
    /\ scenario = ScenarioOff
    /\ budget = MaxHandled

NextClassifier == HandleError

SpecClassifier == InitClassifier /\ [][NextClassifier]_vars

(***************************************************************************)
(* SpecCallbacks: one call of executeOperation whose callbacks may fail in *)
(* every way: the onStart hook throws, run throws before it returns a      *)
(* promise, run's promise rejects or resolves; with events and the clock.  *)
(***************************************************************************)
\* what a hook or run throws
CallbackError == ErrorValue("Error", Null, Null, Boom, Null, Null)

\* executeOperation is called and onStart throws: the promise it returned rejects
ExecuteHookThrows ==
    \E options \in {o \in UiOptions : o.onStart # Null} :
        LET r == ExecuteBeginHookThrows(Here, options, now)
        IN  /\ exec.pc # "awaiting"
            /\ exec.launches < MaxLaunches
            /\ store' = r.s
            /\ uuidCount' = r.n
            /\ calls' = r.calls
            /\ exec' = [ InFlight("ui", options, r.operationId, exec.launches + 1)
                             EXCEPT !.pc = "rejected", !.runArg = Null,
                                    !.rejection = <<CallbackError>> ]
            /\ scenario' = ScenarioOff
            /\ UNCHANGED <<dialog, listener, handled, device, isLogPanelOpen, now, backup, aborted,
                           budget>>

\* executeOperation is called and run throws synchronously: the throw is inside the
\* try, so the catch block follows in the same step and the call returns
ExecuteRunThrows ==
    \E options \in UiOptions :
        LET r == ExecuteBegin(Here, options, now)
            c == ExecuteCatch(Ctx(r.s, r.n, r.calls), options, CallbackError, now)
        IN  /\ exec.pc # "awaiting"
            /\ exec.launches < MaxLaunches
            /\ store' = c.s
            /\ uuidCount' = c.n
            /\ calls' = c.calls
            /\ exec' = [ InFlight("ui", options, r.operationId, exec.launches + 1)
                             EXCEPT !.pc = "returned",
                                    !.result = << [ operationId |-> r.operationId,
                                                    success |-> FALSE ] >>,
                                    !.rejection = <<CallbackError>> ]
            /\ isLogPanelOpen' = IF Default(options.openLogPanel, TRUE) THEN TRUE
                                 ELSE isLogPanelOpen
            /\ scenario' = ScenarioOff
            /\ UNCHANGED <<dialog, listener, handled, device, now, backup, aborted, budget>>

NextCallbacks ==
    \/ Execute
    \/ ExecuteHookThrows
    \/ ExecuteRunThrows
    \/ RunResolve
    \/ RunReject
    \/ Tick
    \/ OutputEvent
    \/ CompleteEvent

SpecCallbacks == Init /\ [][NextCallbacks]_vars

(***************************************************************************)
(* SpecUpdate: at most MaxDownloads downloads of the update fail, each     *)
(* with one of the failure values of the classifier; the catch block runs. *)
(***************************************************************************)
MaxDownloads == 3

DownloadFails ==
    \E error \in ClassifierInputs \cup KeywordInputs :
        LET c == DownloadUpdateCatch(Here, error, now)
        IN  /\ budget > 0
            /\ budget' = budget - 1
            /\ store' = c.s
            /\ uuidCount' = c.n
            /\ calls' = c.calls
            /\ handled' = << [ error |-> error,
                               options |-> IF Throws(parseTauriError(error)) THEN Null
                                           ELSE DownloadErrorOptions(error),
                               returned |-> parseTauriError(error),
                               suggestion |-> Null ] >>
            /\ UNCHANGED <<dialog, scenario, listener, device, isLogPanelOpen, now, exec, backup,
                           aborted>>

InitUpdate ==
    /\ store = InitStore
    /\ isLogPanelOpen = FALSE
    /\ now = 0
    /\ uuidCount = 0
    /\ exec = IdleExec
    /\ backup = IdleBackup
    /\ aborted = FALSE
    /\ listener = SubscribedListener
    /\ handled = <<>>
    /\ device = ConnectedDevice
    /\ dialog = InitDialogState
    /\ calls = <<>>
    /\ scenario = ScenarioOff
    /\ budget = MaxDownloads

NextUpdate == DownloadFails

SpecUpdate == InitUpdate /\ [][NextUpdate]_vars

(***************************************************************************)
(* SpecDialog: the confirmation dialog alone.  confirm() is called at most *)
(* MaxConfirms times, with any variant and at any moment, also while a     *)
(* dialog is open (the update prompt of App.tsx arrives after an await);   *)
(* the user confirms or closes the open dialog, the two timers of the      *)
(* modal fire, and the provider unmounts at any point.                     *)
(***************************************************************************)
MaxConfirms == 3

DialogFrame ==
    UNCHANGED <<store, isLogPanelOpen, now, uuidCount, exec, backup, aborted, calls,
                scenario, listener, handled, device, budget>>

ConfirmCalled ==
    \E variant \in Variants :
        /\ dialog.mounted
        /\ Len(dialog.promises) < MaxConfirms
        /\ dialog' = confirm(dialog, variant)
        /\ DialogFrame

\* the confirm button, enabled unless isConfirmDisabled, or the Enter key while open
ConfirmFired ==
    /\ dialog.mounted
    /\ dialog.isOpen
    /\ ~isConfirmDisabled(dialog)
    /\ dialog' = handleConfirm(dialog)
    /\ DialogFrame

\* the cancel button, the close button, the backdrop or the Escape key
CloseFired ==
    /\ dialog.mounted
    /\ dialog.isOpen
    /\ dialog' = handleClose(dialog)
    /\ DialogFrame

ProviderUnmounts ==
    /\ dialog.mounted
    /\ dialog' = UnmountProvider(dialog)
    /\ DialogFrame

CountdownResetFires ==
    /\ dialog.mounted
    /\ dialog.resetTimer
    /\ dialog' = CountdownReset(dialog)
    /\ DialogFrame

\* if (countdown === null || countdown === 0) return; otherwise the timer is set
CountdownTickFires ==
    /\ dialog.mounted
    /\ dialog.countdown # <<>>
    /\ dialog.countdown # <<0>>
    /\ dialog' = CountdownTick(dialog)
    /\ DialogFrame

NextDialog ==
    \/ ConfirmCalled
    \/ ConfirmFired
    \/ CloseFired
    \/ ProviderUnmounts
    \/ CountdownResetFires
    \/ CountdownTickFires

SpecDialog == Init /\ [][NextDialog]_vars

\* SpecDialogLive: the same steps, none of which is postponed forever: the timers
\* fire, an open dialog is answered and the provider is unmounted in the end
SpecDialogLive ==
    /\ Init
    /\ [][NextDialog]_vars
    /\ WF_vars(ConfirmFired \/ CloseFired)
    /\ WF_vars(ProviderUnmounts)
    /\ WF_vars(CountdownResetFires)
    /\ WF_vars(CountdownTickFires)

(***************************************************************************)
(* Claims about the log sequence (SpecRegistry)                            *)
(***************************************************************************)
\* A step that is exactly one addLog call, and the entry it was given.
IsAddLogStep == Len(calls') = Len(calls) + 1

PassedLog == calls'[Len(calls')]

\* The dedup condition as the specification words it: same message as the
\* immediately preceding entry, timestamps less than 500 ms apart.
MeetsDedup(logs, log) ==
    /\ logs # <<>>
    /\ logs[Len(logs)].message = log.message
    /\ log.timestamp # InvalidDate
    /\ logs[Len(logs)].timestamp # InvalidDate
    /\ log.timestamp[2] - logs[Len(logs)].timestamp[2] < 500
    /\ logs[Len(logs)].timestamp[2] - log.timestamp[2] < 500

\* C1: the log sequence never holds more than 10,000 entries, and an addLog that
\* appends to a sequence of 10,000 entries evicts the front entry, keeps the other
\* entries in their order and puts the new entry last.
C1_BoundedFifo ==
    /\ [](Len(store.logs) <= 10000)
    /\ [][ (IsAddLogStep /\ Len(store.logs) = 10000 /\ ~MeetsDedup(store.logs, PassedLog))
           => /\ Len(store'.logs) = 10000
              /\ \A i \in 1..9999 : store'.logs[i] = store.logs[i + 1]
              /\ StripId(store'.logs[10000]) = PassedLog ]_vars

\* C1 witness: two entries were appended to the filled log and the oldest one is gone.
C1_Witness ==
    /\ Len(store.logs) = 10000
    /\ store.logs[1].id = uuidv4(2)
    /\ store.logs[10000].call = 2

\* C2: an addLog whose entry has the message of the last entry and a timestamp less
\* than 500 ms from it leaves the log sequence as it was.
C2_DuplicateDropped ==
    [][ (IsAddLogStep /\ MeetsDedup(store.logs, PassedLog)) => store'.logs = store.logs ]_vars

\* C2 witness: the second call carried the first entry's message 499 ms later, with
\* another level, and the log still holds the first entry only.
C2_Witness ==
    /\ Len(calls) = 2
    /\ Len(store.logs) = 1
    /\ store.logs[1].call = 1
    /\ calls[2].message = calls[1].message
    /\ calls[2].level # calls[1].level
    /\ calls[1].timestamp = toISOString(0)
    /\ calls[2].timestamp = toISOString(499)

\* C3: an addLog whose entry does not meet the dedup condition appends it: the new
\* entry is the last one and the entries before it are the previous sequence (less
\* the evicted front when it was full).
C3_NonDuplicateAppended ==
    [][ (IsAddLogStep /\ ~MeetsDedup(store.logs, PassedLog))
        => /\ store'.logs # <<>>
           /\ StripId(store'.logs[Len(store'.logs)]) = PassedLog
           /\ \/ store'.logs = Append(store.logs, store'.logs[Len(store'.logs)])
              \/ /\ Len(store.logs) = 10000
                 /\ store'.logs = Append(Tail(store.logs), store'.logs[Len(store'.logs)])
      ]_vars

\* C3 witness: A, B, A at the same instant are all retained, and so is a fourth
\* entry A exactly 500 ms after the third.
C3_Witness ==
    /\ Len(store.logs) = 4
    /\ store.logs[1].message = ReadingSector1
    /\ store.logs[2].message = ReadingSector2
    /\ store.logs[3].message = ReadingSector1
    /\ store.logs[4].message = ReadingSector1
    /\ \A i \in 1..3 : store.logs[i].timestamp = toISOString(0)
    /\ store.logs[4].timestamp = toISOString(500)

\* C10: the log sequence is an order-preserving subsequence of the entries passed to
\* addLog (each entry is the entry of the call it stems from, and the calls' ordinals
\* increase along the sequence); and after start, output events with distinct lines
\* and a successful completion event from a store without logs, the operation is not
\* running and the log sequence is those lines in arrival order.
C10_ArrivalOrder ==
    /\ \A i \in 1..Len(store.logs) :
        LET e == store.logs[i]
        IN  /\ e.call <= Len(calls)
            /\ e.call >= 1 => StripId(e) = calls[e.call]
            /\ e.call < 1 => e = FilledEntry(MAX_LOGS - 1, e.call + MAX_LOGS - 1)
            /\ i > 1 => store.logs[i - 1].call < e.call
    /\ scenario.phase = "completed"
        => /\ ~store.isRunning
           /\ Len(store.logs) = Len(scenario.lines)
           /\ \A i \in 1..Len(scenario.lines) : store.logs[i].message = scenario.lines[i]

\* C10 witness: the run start, "Reading sector 1", "Reading sector 2", completion.
C10_Witness ==
    /\ scenario.phase = "completed"
    /\ scenario.lines = <<ReadingSector1, ReadingSector2>>

(***************************************************************************)
(* Claims about the launcher and the bulk backup (Spec)                    *)
(***************************************************************************)
\* the step in which run's promise settles and executeOperation returns
IsResolveStep == exec.pc = "awaiting" /\ exec'.pc = "returned" /\ exec'.rejection = <<>>

IsRejectStep == exec.pc = "awaiting" /\ exec'.pc = "returned" /\ exec'.rejection # <<>>

IsLaunchStep == exec.pc # "awaiting" /\ exec'.pc = "awaiting"

C5_TerminalErrorIsResolvedMessage ==
    [][ IsRejectStep =>
          store'.error = HandledMessage(exec'.rejection[1],
                                        MergedErrorOptions(exec.options[1])) ]_vars

\* C6: when run resolves, executeOperation returns {operationId, success: true}, and
\* at that moment the Registry has isRunning = false, isStreaming = false and no
\* terminal error.
C6_ResolveFinishesClean ==
    [][ IsResolveStep =>
          /\ exec'.result = << [operationId |-> exec.runArg, success |-> TRUE] >>
          /\ ~store'.isRunning
          /\ ~store'.isStreaming
          /\ store'.error = Null ]_vars

C6_Witness ==
    /\ exec.pc = "returned"
    /\ exec.rejection = <<>>
    /\ exec.result = << [operationId |-> exec.runArg, success |-> TRUE] >>
    /\ ~store.isRunning
    /\ ~store.isStreaming
    /\ store.error = Null
    /\ Len(store.logs) > 1

\* C7: when run resolves and success reporting is not suppressed, the log sequence
\* after executeOperation returns has a success-level entry with the success message,
\* whatever the log sequence held when run resolved; when success reporting is
\* suppressed, executeOperation appends nothing.
C7_SuccessEntryPresent ==
    [][ IsResolveStep =>
          IF Default(exec.options[1].handleSuccess, TRUE)
          THEN \E i \in DOMAIN store'.logs :
                   /\ store'.logs[i].level = "success"
                   /\ store'.logs[i].message =
                          SuccessMessage(exec.options[1].operation,
                                         exec.options[1].successMessage)
          ELSE store'.logs = store.logs ]_vars

\* C8: for every executeOperation call, the operationId of the result is the id
\* passed to run, to onStart and to the Registry's start; it is the caller's id when
\* the caller supplies one, and a newly generated id otherwise.
C8_OneOperationId ==
    [][ /\ IsLaunchStep =>
              LET options == exec'.options[1]
              IN  /\ store'.operationId = exec'.runArg
                  /\ options.onStart # Null => exec'.onStartArg = exec'.runArg
                  /\ Truthy(options.operationId) => exec'.runArg = options.operationId
                  /\ ~Truthy(options.operationId) =>
                         \E k \in (uuidCount + 1)..uuidCount' : exec'.runArg = uuidv4(k)
        /\ (IsResolveStep \/ IsRejectStep) =>
              exec'.result[1].operationId = exec.runArg ]_vars

C8_Witness ==
    /\ exec.pc = "returned"
    /\ exec.caller = "backup"
    /\ Truthy(exec.options[1].operationId)
    /\ exec.result[1].operationId = exec.options[1].operationId
    /\ exec.runArg = exec.options[1].operationId

SameExcept(t, s, fields) ==
    /\ DOMAIN t = DOMAIN s
    /\ \A f \in DOMAIN s \ fields : t[f] = s[f]

\* C11: clearLogs changes only the log sequence; after start followed by clearLogs
\* the Registry is running with an empty log sequence, and every other field has the
\* value start left.
C11_ClearLogsOnlyLogs ==
    /\ clearLogs(store).logs = <<>>
    /\ SameExcept(clearLogs(store), store, {"logs"})
    /\ \A a \in StartInputs :
           LET started == startOperation(store, a[1], a[2], a[3], a[4], now)
               cleared == clearLogs(started)
           IN  /\ cleared.isRunning
               /\ cleared.logs = <<>>
               /\ SameExcept(cleared, started, {"logs"})

C11_Witness ==
    /\ store.isRunning
    /\ store.type = "read"
    /\ store.operationId = Op1
    /\ store.isStreaming
    /\ store.logs = <<>>
    /\ calls = <<>>
    /\ uuidCount = 1
    /\ scenario.phase = "off"

\* C12: from every Registry state, finishOperation(success, error) gives isRunning =
\* false, isStreaming = false and error = the message when a non-empty one is given,
\* null otherwise: finish(true) gives null, finish(false, "disk full") "disk full".
C12_FinishResult ==
    /\ \A a \in FinishInputs :
           LET finished == finishOperation(store, a[1], a[2])
           IN  /\ ~finished.isRunning
               /\ ~finished.isStreaming
               /\ finished.error = IF a[2] # Null /\ Len(a[2]) > 0 THEN a[2] ELSE Null
    /\ finishOperation(store, TRUE, Null).error = Null
    /\ finishOperation(store, FALSE, DiskFull).error = DiskFull

C12_Witness ==
    /\ store.type = "read"
    /\ store.operationId = Op1
    /\ ~store.isRunning
    /\ ~store.isStreaming
    /\ store.error = DiskFull
    /\ store.startTime # <<>>

\* C13: finishOperation leaves the log sequence and the subject untouched: logs, type,
\* partitionName, partitionSize, operationId, startTime and progress are after it
\* what they were before it.
C13_FinishFrame ==
    \A a \in FinishInputs :
        LET finished == finishOperation(store, a[1], a[2])
        IN  /\ SameExcept(finished, store, {"isRunning", "isStreaming", "error"})
            /\ finished.logs = store.logs
            /\ finished.type = store.type
            /\ finished.partitionName = store.partitionName
            /\ finished.partitionSize = store.partitionSize
            /\ finished.operationId = store.operationId
            /\ finished.startTime = store.startTime
            /\ finished.progress = store.progress

C13_Witness ==
    /\ store.type = "read"
    /\ store.partitionName = Nvram
    /\ store.operationId = Op1
    /\ store.startTime # <<>>
    /\ Len(store.logs) = 1
    /\ ~store.isRunning
    /\ store.error = DiskFull

\* C14: startOperation keeps the log sequence accumulated so far and sets progress =
\* null, error = null, isRunning = true, type and subject to its arguments,
\* operationId to the supplied id (null when there is none) and isStreaming to true
\* exactly when an id is supplied; startTime is the current time.
C14_StartEffect ==
    \A a \in StartInputs :
        LET started == startOperation(store, a[1], a[2], a[3], a[4], now)
        IN  /\ DOMAIN started = DOMAIN store
            /\ started.logs = store.logs
            /\ started.progress = <<>>
            /\ started.error = Null
            /\ started.isRunning
            /\ started.type = a[1]
            /\ started.partitionName = a[2]
            /\ started.partitionSize = IF Truthy(a[3]) THEN a[3] ELSE Null
            /\ started.operationId = IF Truthy(a[4]) THEN a[4] ELSE Null
            /\ started.isStreaming = Truthy(a[4])
            /\ started.startTime = <<now>>

C14_Witness ==
    /\ store.isRunning
    /\ store.type = "write"
    /\ store.partitionName = Nvram
    /\ store.partitionSize = Null
    /\ store.operationId = Null
    /\ ~store.isStreaming
    /\ store.progress = <<>>
    /\ store.error = Null
    /\ Len(store.logs) = 2

\* C16: a completion event is applied to whatever operation is registered, without
\* comparing ids: delivered with operation_id X while the Registry's operationId is
\* another id or null and isRunning = true, it gives isRunning = false, isStreaming =
\* false and error = the event's error or null, as it does when the ids are equal.
C16_CompletionIgnoresId ==
    \A payload \in CompletePayloads :
        LET completed == OnComplete(store, payload)
            sameId == OnComplete([store EXCEPT !.operationId = payload.operation_id],
                                 payload)
        IN  /\ ~completed.isRunning
            /\ ~completed.isStreaming
            /\ completed.error = IF Truthy(payload.error) THEN payload.error ELSE Null
            /\ SameExcept(completed, sameId, {"operationId"})
            /\ completed.operationId = store.operationId

\* the completion {operation_id: "op-1", success: true} arrived after a start without
\* an id and ended the operation
C16_Witness ==
    /\ scenario.phase = "completed"
    /\ store.operationId = Null
    /\ store.type = "write"
    /\ ~store.isRunning
    /\ ~store.isStreaming
    /\ store.error = Null

(***************************************************************************)
(* Claims about the listener (SpecListener)                                *)
(***************************************************************************)
\* the level the rule of C15 gives each line of LevelLines, worked out by hand
LinesWithErrorWord ==
    { <<"E", "R", "R", "O", "R">>,
      <<"w", "r", "i", "t", "e", " ", "f", "a", "i", "l", "e", "d">>,
      <<"f", "a", "i", "l", "e", "d", " ", "s", "u", "c", "c", "e", "s", "s">> }

LinesWithWarningWord ==
    { <<"W", "a", "r", "n", "i", "n", "g">>,
      <<"w", "a", "r", "n">>,
      <<"w", "a", "r", "n", "i", "n", "g", ":", " ", "n", "o", "t", " ", "f", "o", "u", "n",
        "d">> }

LinesWithSuccessWord ==
    { <<"S", "u", "c", "c", "e", "s", "s">>,
      <<"c", "o", "m", "p", "l", "e", "t", "e">>,
      <<"f", "o", "u", "n", "d">> }

ExpectedLevel(line, is_stderr) ==
    IF line \in LinesWithErrorWord THEN "error"
    ELSE IF line \in LinesWithWarningWord THEN "warning"
    ELSE IF line \in LinesWithSuccessWord THEN "success"
    ELSE IF is_stderr THEN "error"
    ELSE "info"

\* C15: the level of an output line is error if the lower-cased line contains "error"
\* or "failed", else warning if it contains "warning" or "warn", else success if it
\* contains "success", "complete" or "found", else error on stderr and info on stdout
\* (first match wins), and the entry is appended with the event's own timestamp.
\* The callback is examined on every line when it is registered, and every entry a
\* delivered event adds is examined when it is added.
C15_LevelOfLine ==
    [][ /\ listener'.outputCallback # listener.outputCallback =>
             \A payload \in LevelPayloads :
               /\ ParseLevel(payload.line, payload.is_stderr) =
                      ExpectedLevel(payload.line, payload.is_stderr)
               /\ LET c == OnOutput(Ctx(clearLogs(store), uuidCount, <<>>), payload)
                  IN  /\ Len(c.s.logs) = 1
                      /\ c.s.logs[1].timestamp = payload.timestamp
                      /\ c.s.logs[1].message = payload.line
                      /\ c.s.logs[1].level = ExpectedLevel(payload.line, payload.is_stderr)
        /\ IsAddLogStep =>
               /\ PassedLog.timestamp = toISOString(499)
               /\ PassedLog.timestamp # toISOString(now')
               /\ \E is_stderr \in BOOLEAN :
                      PassedLog.level = ExpectedLevel(PassedLog.message, is_stderr)
               /\ PassedLog.message # Done =>
                      PassedLog.level = ExpectedLevel(PassedLog.message, FALSE)
               /\ ~IsDuplicate(store.logs, PassedLog) =>
                      StripId(store'.logs[Len(store'.logs)]) = PassedLog ]_vars

\* a stderr or stdout line "Warning" was logged as warning, then "failed success" as
\* error, both with the backend's timestamp
C15_Witness ==
    /\ Len(store.logs) = 2
    /\ store.logs[1].message = <<"W", "a", "r", "n", "i", "n", "g">>
    /\ store.logs[1].level = "warning"
    /\ store.logs[2].message =
           <<"f", "a", "i", "l", "e", "d", " ", "s", "u", "c", "c", "e", "s", "s">>
    /\ store.logs[2].level = "error"
    /\ store.logs[2].timestamp = toISOString(499)
    /\ now = 0

\* C17: after the listener instance's cleanup, no output or completion event
\* delivered to its callbacks changes a Registry field, whether the cleanup ran
\* while subscribing, partly subscribed or fully subscribed, and also for an event
\* queued before the cleanup.
C17_NoMutationAfterCleanup ==
    [][ (listener.tornDownAt # "none" /\ listener'.delivered = listener.delivered + 1) =>
          /\ store' = store
          /\ listener'.ignored = listener.ignored + 1 ]_vars

\* the cleanup ran before the first listen resolved; both callbacks were registered
\* afterwards, never removed, and two events reached them without effect
C17_Witness ==
    /\ listener.tornDownAt = "subscribingOutput"
    /\ listener.outputCallback = "registered"
    /\ listener.completeCallback = "registered"
    /\ listener.ignored = 2
    /\ store.isRunning
    /\ store.logs = <<>>

\* C18: when subscribing to the output or the completion channel fails, the listener
\* catches the failure, logs it to the console, leaves the Registry unchanged and
\* does not retry, and the failure is not left as an unhandled rejection.
C18_SubscribeFailureCaught ==
    /\ [][ (listener.pc # "failed" /\ listener'.pc = "failed") =>
             /\ listener'.consoleErrors = listener.consoleErrors + 1
             /\ ~listener'.unhandledRejection
             /\ store' = store ]_vars
    /\ [][ listener.pc = "failed" => listener'.pc = "failed" ]_vars

(***************************************************************************)
(* Claims about the error classifier (SpecClassifier)                      *)
(***************************************************************************)
\* The rule the classification r of the failure value e has to follow: the first one,
\* in the order null, native exception, string, object with a string type, object with
\* a string message, other object, anything else, whose condition e meets.
C19_FirstMatchingRule(e, r) ==
    IF e.tag = "null" THEN r.type = Str_unknown /\ r.category = Str_unknown
    ELSE IF e.tag = "Error" THEN r.type = Str_other /\ r.category = Str_unknown
    ELSE IF e.tag = "string"
    THEN r.type = Str_other /\ r.message = e.text
         /\ r.category = categorizeErrorString(e.text)
    ELSE IF e.tag = "object" /\ e.type # Null
    THEN r.type = e.type /\ (e.message # Null => r.message = e.message)
    ELSE IF e.tag = "object" /\ e.message # Null
    THEN r.type = Str_other /\ r.message = e.message
         /\ r.category = categorizeErrorString(e.message)
    ELSE IF e.tag = "object" /\ e.text # Null
    THEN r.message = e.text /\ r.category = Str_unknown
    ELSE IF e.tag = "object"
    THEN /\ r.message = <<"A", "n", " ", "e", "r", "r", "o", "r", " ", "o", "c", "c", "u", "r",
                          "r", "e", "d", " ", "(", "d", "e", "t", "a", "i", "l", "s", " ", "u",
                          "n", "a", "v", "a", "i", "l", "a", "b", "l", "e", ")">>
         /\ r.category = Str_unknown
    ELSE r.message = e.text /\ r.category = Str_unknown

\* The rule order alone: whenever the classifier returns, what it returns follows the
\* first matching rule.
C19_RulesWhenReturned ==
    handled # <<>> /\ ~Throws(handled[1].returned)
        => C19_FirstMatchingRule(handled[1].error, handled[1].returned)

\* C19: classifying a failure value never throws, and the classification follows the
\* first matching rule: null gives kind unknown and category unknown; a native
\* exception kind other and category unknown whatever its message; a string kind other
\* with the keyword category; an object with a string type is passed through as
\* structured; an object with only a string message gives kind other with the keyword
\* category of the message; any other object its JSON text (or the fixed "details
\* unavailable" message) with category unknown; anything else its string coercion with
\* category unknown.
C19_ClassificationTotal ==
    handled # <<>>
        => /\ ~Throws(handled[1].returned)
           /\ C19_FirstMatchingRule(handled[1].error, handled[1].returned)

\* the member of the fixed category set a category names when letter case is ignored,
\* unknown when it is missing or names none
C20_MappedCategory(category) ==
    LET named == { c \in { Str_network, Str_permission, Str_filesystem, Str_validation,
                           Str_command, Str_update } :
                       Truthy(category) /\ toLowerCase(c) = toLowerCase(category) }
    IN  IF named = {} THEN Str_unknown ELSE CHOOSE c \in named : TRUE

C21_Table ==
    << [ category |-> Str_network,
         keywords |-> { <<"n", "e", "t", "w", "o", "r", "k">>,
                        <<"c", "o", "n", "n", "e", "c", "t", "i", "o", "n">>,
                        <<"t", "i", "m", "e", "o", "u", "t">>,
                        <<"d", "n", "s">>,
                        <<"d", "o", "w", "n", "l", "o", "a", "d">>,
                        <<"f", "e", "t", "c", "h">> } ],
       [ category |-> Str_permission,
         keywords |-> { <<"p", "e", "r", "m", "i", "s", "s", "i", "o", "n">>,
                        <<"a", "c", "c", "e", "s", "s", " ", "d", "e", "n", "i", "e", "d">>,
                        <<"e", "r", "r", "o", "r", " ", "c", "o", "d", "e", " ", "5">>,
                        <<"e", "r", "r", "o", "r", " ", "c", "o", "d", "e", " ", "3", "2">>,
                        <<"s", "h", "a", "r", "i", "n", "g", " ", "v", "i", "o", "l", "a", "t",
                          "i", "o", "n">>,
                        <<"a", "d", "m", "i", "n", "i", "s", "t", "r", "a", "t", "o", "r">> } ],
       [ category |-> Str_filesystem,
         keywords |-> { <<"f", "i", "l", "e">>,
                        <<"d", "i", "r", "e", "c", "t", "o", "r", "y">>,
                        <<"p", "a", "t", "h">>,
                        <<"n", "o", "t", " ", "f", "o", "u", "n", "d">>,
                        <<"d", "i", "s", "k", " ", "f", "u", "l", "l">>,
                        <<"n", "o", " ", "s", "p", "a", "c", "e">> } ],
       [ category |-> Str_command,
         keywords |-> { <<"c", "o", "m", "m", "a", "n", "d">>,
                        <<"e", "x", "e", "c", "u", "t", "i", "o", "n">> } ],
       [ category |-> Str_update,
         keywords |-> { <<"u", "p", "d", "a", "t", "e">>,
                        <<"c", "h", "e", "c", "k", "s", "u", "m">>,
                        <<"h", "a", "s", "h">>,
                        <<"v", "e", "r", "i", "f", "i", "c", "a", "t", "i", "o", "n">> } ] >>

\* the groups of the table with a keyword contained in the message, letter case ignored
C21_Matching(message) ==
    { i \in DOMAIN C21_Table :
          \E k \in C21_Table[i].keywords : includes(toLowerCase(message), k) }

C21_TableCategory(message) ==
    IF C21_Matching(message) = {} THEN Str_unknown
    ELSE C21_Table[CHOOSE i \in C21_Matching(message) :
                       \A j \in C21_Matching(message) : i <= j].category

\* the table and the categoriser agree on the messages made of the table's keywords
C21_AgreesOnListedKeywords ==
    handled # <<>> /\ handled[1].error.tag = "string"
    /\ handled[1].error.text \notin {Msg_GitHub, Msg_Antumbra}
        => handled[1].returned.category = C21_TableCategory(handled[1].error.text)

\* C21: the keyword category of a message is the first group of the table, in the order
\* network, permission, filesystem, command, update, with one of its listed keywords
\* contained in the message whatever the letter case, and unknown when the message
\* contains none of the listed keywords.
C21_KeywordTable ==
    handled # <<>> /\ handled[1].error.tag = "string"
        => handled[1].returned.category = C21_TableCategory(handled[1].error.text)

\* a structured error that brings a suggestion of its own
C22_HasExplicitSuggestion(e) == e.tag = "object" /\ e.type # Null /\ Truthy(e.suggestion)

\* the categories that have a fixed suggestion; validation and unknown have none
C22_CategoriesWithSuggestion ==
    { Str_network, Str_permission, Str_filesystem, Str_command, Str_update }

\* C22: the suggestion resolved for a failure is the explicit suggestion of a structured
\* error when it has one, otherwise the one fixed string of the error's category (the
\* same string for every failure of that category), otherwise none; for "Network
\* timeout while connecting" it is the network string, which mentions the connection.
C22_SuggestionResolution ==
    handled # <<>> /\ ~Throws(handled[1].returned)
        => LET e == handled[1].error
               r == handled[1].returned
               suggestion == handled[1].suggestion
           IN  /\ C22_HasExplicitSuggestion(e) => suggestion = e.suggestion
               /\ ~C22_HasExplicitSuggestion(e) /\ r.category \in C22_CategoriesWithSuggestion
                      => /\ Truthy(suggestion)
                         /\ \A other \in ClassifierInputs \cup KeywordInputs :
                                ( /\ ~Throws(parseTauriError(other))
                                  /\ ~C22_HasExplicitSuggestion(other)
                                  /\ parseTauriError(other).category = r.category )
                                    => HandledSuggestion(other, handled[1].options) = suggestion
               /\ ~C22_HasExplicitSuggestion(e) /\ r.category \notin C22_CategoriesWithSuggestion
                      => suggestion = Null
               /\ e.tag = "string" /\ e.text = Msg_NetworkTimeoutConnecting
                      => /\ r.category = Str_network
                         /\ includes(toLowerCase(suggestion),
                                     <<"c", "o", "n", "n", "e", "c", "t", "i", "o", "n">>)

\* a structured error with the category "FileSystem" and a suggestion of its own was
\* handled: the suggestion shown is its own, not the filesystem string
C22_Witness ==
    /\ handled # <<>>
    /\ handled[1].error = Err_StructuredFull
    /\ handled[1].returned.category = Str_filesystem
    /\ handled[1].suggestion = Err_StructuredFull.suggestion
    /\ handled[1].suggestion # getErrorSuggestion(Err_MessageOnly)
    /\ Len(store.logs) = 2

(***************************************************************************)
(* Claims about ownership, disconnection and order (Spec)                  *)
(***************************************************************************)
\* the steps in which executeOperation runs: its synchronous part, from a single
\* operation caller or from the backup loop, and the part after run settled
C23_LauncherStep == Execute \/ BackupNext \/ RunResolve \/ RunReject

\* the steps in which a callback of useOperationStream runs
C23_ListenerCallbackStep == OutputEvent \/ CompleteEvent

\* the steps in which the bulk backup page calls clearLogs and addLog itself
C23_PageStep == BackupBegin \/ BackupCancelled

\* what does hold: the store changes only in launcher, listener and page steps
C23_WritersOfTheStore ==
    [][ store' # store
            => C23_LauncherStep \/ C23_ListenerCallbackStep \/ C23_PageStep ]_vars

\* C23: every change of the Operation fields, the log sequence or the progress snapshot
\* is made by a call the Launcher or the Listener issued; nothing else calls addLog,
\* clearLogs, start, finish or reset.
C23_OnlyLauncherAndListener ==
    [][ store' # store => C23_LauncherStep \/ C23_ListenerCallbackStep ]_vars

\* C24: disconnecting the device requests a cancel, whose failure is swallowed, sets
\* the device to not connected and clears the partition list, and leaves the Registry
\* (isRunning, isStreaming, operationId, error, progress, the log sequence and every
\* other field) as it was.
C24_DisconnectLeavesRegistry ==
    [][ device' # device
            => /\ device'.cancelRequests = device.cancelRequests + 1
               /\ device'.unhandledRejections = 0
               /\ ~device'.isConnected
               /\ device'.partitions = <<>>
               /\ store' = store ]_vars

\* the device was disconnected while an operation was streaming: the operation is
\* still running, with its id and its log
C24_Witness ==
    /\ ~device.isConnected
    /\ device.cancelRequests = 1
    /\ exec.pc = "awaiting"
    /\ store.isRunning
    /\ store.isStreaming
    /\ store.operationId = exec.operationId
    /\ store.logs # <<>>

\* C25: in the bulk backup, once the abort has been signalled (the device disconnected
\* or the page unmounted while the backup runs) no operation for a further partition is
\* started; the unit whose run is pending when the abort is signalled is left as it is
\* by the signal and by the loop, and its executeOperation call ends only by its own
\* run settling; and no more units are started than there are partitions.
C25_AbortStopsTheLoop ==
    [][ /\ Len(backup'.started) <= Len(Partitions)
        /\ aborted /\ aborted' => backup'.started = backup.started
        /\ ~aborted /\ aborted'
               => /\ exec' = exec
                  /\ store' = store
                  /\ backup'.started = backup.started
        /\ (aborted /\ exec.caller = "backup" /\ exec.pc = "awaiting" /\ exec' # exec)
               => /\ RunResolve \/ RunReject
                  /\ exec'.pc = "returned"
                  /\ ~store'.isRunning ]_vars

\* the abort was signalled while the second partition was being read: the read has
\* settled, the loop has ended with the cancel message, and the third was never started
C25_Witness ==
    /\ aborted
    /\ backup.pc = "done"
    /\ Len(backup.started) = 2
    /\ Len(backup.outcomes) = 2
    /\ exec.pc = "returned"
    /\ ~store.isRunning
    /\ store.logs # <<>>
    /\ store.logs[Len(store.logs)].level = "warning"

C27_IsLaunchStep == exec.pc # "awaiting" /\ exec'.pc = "awaiting"

\* C27: within one executeOperation call the logs are cleared (when enabled) before the
\* start hook is called with the id, the hook before the Registry is started, and the
\* Registry is started and the log panel opened (when enabled) before run is invoked
\* with the same id: when run is invoked the hook's entry is in the log sequence (the
\* only entry when the logs were cleared), the entries from before the call are gone
\* when clearing is enabled and kept when it is not, and the Registry is running with
\* the id run receives.
C27_OrderWithinExecute ==
    [][ C27_IsLaunchStep
            => LET options == exec'.options[1]
                   hook == options.onStart # Null
               IN  /\ store'.isRunning
                   /\ store'.operationId = exec'.runArg
                   /\ store'.startTime = <<now>>
                   /\ hook => /\ exec'.onStartArg = exec'.runArg
                              /\ store'.logs # <<>>
                              /\ store'.logs[Len(store'.logs)].message = options.onStart
                   /\ Default(options.clearLogs, TRUE)
                          => Len(store'.logs) = IF hook THEN 1 ELSE 0
                   /\ ~Default(options.clearLogs, TRUE) /\ ~hook => store'.logs = store.logs
                   /\ Default(options.openLogPanel, TRUE) => isLogPanelOpen' ]_vars

\* the seccfg unlock was launched over a log that held entries: run is pending, the
\* log holds the start hook's entry alone, and the Registry runs with run's id
C27_Witness ==
    /\ exec.pc = "awaiting"
    /\ exec.options[1].onStart # Null
    /\ exec.onStartArg = exec.runArg
    /\ Len(store.logs) = 1
    /\ store.logs[1].message = exec.options[1].onStart
    /\ store.logs[1].id = uuidv4(3)
    /\ store.isRunning
    /\ store.operationId = exec.runArg
    /\ isLogPanelOpen

(***************************************************************************)
(* Claims about late events and restarts (SpecRegistry)                    *)
(***************************************************************************)
\* the log sequence after an addLog of the entry: unchanged when the entry meets the
\* dedup condition, else the entry last, after the previous ones less the evicted front
C28_Logged(before, after, log) ==
    IF MeetsDedup(before, log)
    THEN after = before
    ELSE /\ after # <<>>
         /\ StripId(after[Len(after)]) = log
         /\ \/ after = Append(before, after[Len(after)])
            \/ /\ Len(before) = MAX_LOGS
               /\ after = Append(Tail(before), after[Len(after)])

\* C28: an output event that arrives when the operation has been finished appends its
\* line to the log sequence (subject to dedup and the size bound) and leaves isRunning,
\* isStreaming, error, operationId, the subject and progress as they were; addLog
\* changes no field but logs, and updateProgress no field but progress.
C28_LateOutputOnlyLogs ==
    /\ [](/\ \A log \in LogInputs :
                 SameExcept(addLog(store, log, uuidv4(uuidCount + 1)), store, {"logs"})
          /\ \A progress \in ProgressInputs :
                 /\ SameExcept(updateProgress(store, progress), store, {"progress"})
                 /\ updateProgress(store, progress).logs = store.logs
          /\ \A payload \in OutputPayloads :
                 SameExcept(OutputCallback(Here, TRUE, payload).s, store, {"logs"}))
    /\ [][ (IsAddLogStep /\ ~store.isRunning)
           => /\ C28_Logged(store.logs, store'.logs, PassedLog)
              /\ store'.isRunning = store.isRunning
              /\ store'.isStreaming = store.isStreaming
              /\ store'.error = store.error
              /\ store'.operationId = store.operationId
              /\ store'.type = store.type
              /\ store'.partitionName = store.partitionName
              /\ store'.partitionSize = store.partitionSize
              /\ store'.startTime = store.startTime
              /\ store'.progress = store.progress ]_vars

\* the operation "read nvram" made progress and was finished with "disk full"; the
\* line "Done" arrived afterwards and is the only entry of the log
C28_Witness ==
    /\ ~store.isRunning
    /\ ~store.isStreaming
    /\ store.error = DiskFull
    /\ store.type = "read"
    /\ store.operationId = Op1
    /\ store.progress # <<>>
    /\ Len(store.logs) = 1
    /\ store.logs[1].message = Done
    /\ store.logs[1].call = 1
    /\ budget = 0

\* C29: startOperation invoked while isRunning = true is neither rejected nor queued:
\* it replaces type, subject, operationId and startTime of the previous operation by
\* its arguments and the current time, keeps the log sequence and leaves isRunning =
\* true; the store has the same single set of operation fields, and a finish
\* afterwards ends the new operation without bringing the previous one back.
C29_StartReplaces ==
    store.isRunning
        => \A a \in StartInputs, t \in Instants :
               LET started == startOperation(store, a[1], a[2], a[3], a[4], t)
               IN  /\ DOMAIN started = DOMAIN InitStore
                   /\ started.isRunning
                   /\ started.type = a[1]
                   /\ started.partitionName = a[2]
                   /\ started.partitionSize = IF Truthy(a[3]) THEN a[3] ELSE Null
                   /\ started.operationId = IF Truthy(a[4]) THEN a[4] ELSE Null
                   /\ started.startTime = <<t>>
                   /\ started.logs = store.logs
                   /\ <<a[1], a[4]>> # <<store.type, store.operationId>> => started # store
                   /\ \A f \in FinishInputs :
                          LET finished == finishOperation(started, f[1], f[2])
                          IN  /\ ~finished.isRunning
                              /\ finished.type = a[1]
                              /\ finished.operationId = started.operationId

\* "write nvram" was started without an id while "read nvram" (id op-1) was running
\* with one log entry, whose history shows the first start and which is still there
C29_Witness ==
    /\ store.isRunning
    /\ store.type = "write"
    /\ store.operationId = Null
    /\ ~store.isStreaming
    /\ Len(store.logs) = 1
    /\ store.logs[1].call = 1
    /\ budget = MaxRegistrySteps - 3

(***************************************************************************)
(* Claims about ErrorHandler.handle (SpecClassifier)                       *)
(***************************************************************************)
\* a step that is one call of handle, the call it records, and the entries the log
\* sequence has gained in it
C30_IsHandleStep == budget' = budget - 1

C30_DefaultOptions == ErrorOptions(<<>>, <<>>, Null)

C30_Added == SubSeq(store'.logs, Len(store.logs) + 1, Len(store'.logs))

\* what the claim says of one call: a StructuredError is returned, and with default
\* options the log gains "[label] message" at level error, then the suggestion line at
\* level info exactly when a suggestion resolves
C30_LinesOfTheCall(h) ==
    /\ ~Throws(h.returned)
    /\ DOMAIN h.returned = DOMAIN AppError(Null, Null, Null, Null, <<>>, Null)
    /\ h.options = C30_DefaultOptions
           => /\ Len(store'.logs) >= Len(store.logs)
              /\ SubSeq(store'.logs, 1, Len(store.logs)) = store.logs
              /\ Len(C30_Added) = IF Truthy(h.suggestion) THEN 2 ELSE 1
              /\ C30_Added[1].level = "error"
              /\ C30_Added[1].message = <<"[", "R", "e", "b", "o", "o", "t", "]", " ">>
                                            \o h.returned.message
              /\ Truthy(h.suggestion)
                     => /\ C30_Added[2].level = "info"
                        /\ C30_Added[2].message
                               = <<"(bulb)", " ", "S", "u", "g", "g", "e", "s", "t", "i", "o",
                                   "n", ":", " ">> \o h.suggestion

\* C30: handle with default options appends to the operation log one error-level line
\* labelled with the operation label, followed, exactly when a suggestion resolves for
\* the error, by one info-level suggestion line, and it returns the StructuredError
\* the classifier produces for the error value, whatever the options.
C30_HandleLogsAndReturns ==
    [][ C30_IsHandleStep => C30_LinesOfTheCall(handled'[1]) ]_vars

\* the same for the calls on which the classifier returns and whose error line is not
\* a repetition of the last log entry at the same instant
C30_WhenClassifiedAndFresh ==
    [][ ( /\ C30_IsHandleStep
          /\ ~Throws(handled'[1].returned)
          /\ \/ store.logs = <<>>
             \/ store.logs[Len(store.logs)].message
                    # <<"[", "R", "e", "b", "o", "o", "t", "]", " ">>
                          \o handled'[1].returned.message )
        => C30_LinesOfTheCall(handled'[1]) ]_vars

\* option profiles with the operation-log append turned off: the other options at
\* their defaults, without toast, and with a message override
C31_SilentOptions ==
    { ErrorOptions(<<>>, <<FALSE>>, Null),
      ErrorOptions(<<FALSE>>, <<FALSE>>, Null),
      ErrorOptions(<<TRUE>>, <<FALSE>>, <<"C", "u", "s", "t", "o", "m">>),
      [ ErrorOptions(<<FALSE>>, <<FALSE>>, <<"C", "u", "s", "t", "o", "m">>)
            EXCEPT !.showSuggestion = <<FALSE>>, !.logToConsole = <<FALSE>> ] }

\* C31: handle called with addToOperationLog = false leaves the log sequence and every
\* other field of the store unchanged, whatever the error value and the other options.
C31_SilentHandleLeavesRegistry ==
    [][ C30_IsHandleStep
        => /\ handled'[1].options.addToOperationLog = <<FALSE>>
                  => store' = store /\ calls' = calls /\ uuidCount' = uuidCount
           /\ \A options \in C31_SilentOptions :
                  ErrorHandler_handle(Here, handled'[1].error, <<"R", "e", "b", "o", "o", "t">>,
                                      options, now) = Here ]_vars

\* a first call logged its two lines; the last call, for a structured error with a
\* suggestion of its own and the append turned off, added nothing
C31_Witness ==
    /\ handled # <<>>
    /\ handled[1].options.addToOperationLog = <<FALSE>>
    /\ handled[1].error = Err_StructuredFull
    /\ Len(store.logs) = 2
    /\ Len(calls) = 2
    /\ budget = 0

(***************************************************************************)
(* Claims about the update download (SpecUpdate)                           *)
(***************************************************************************)
\* a step that is one failed download, its error, and the lines the log gained in it
C32_IsDownloadStep == budget' = budget - 1

C32_StepPrefix ==
    <<"T", "r", "o", "u", "b", "l", "e", "s", "h", "o", "o", "t", "i", "n", "g", " ", "s", "t",
      "e", "p", " ">>

\* the log gained exactly the given steps, numbered from 1, in order, at level info
C32_StepLines(steps) ==
    /\ Len(store'.logs) = Len(store.logs) + Len(steps)
    /\ SubSeq(store'.logs, 1, Len(store.logs)) = store.logs
    /\ \A i \in 1..Len(steps) :
           LET line == store'.logs[Len(store.logs) + i]
           IN  /\ line.level = "info"
               /\ line.message = C32_StepPrefix \o NumberToString(i) \o <<":", " ">> \o steps[i]

\* C32: when the download fails with an error of category permission, filesystem or
\* network, the troubleshooting steps defined for that error are appended to the log
\* as info-level lines "Troubleshooting step 1", "step 2", ... in their order, and at
\* least one step line is appended.
C32_StepsForThreeCategories ==
    [][ ( /\ C32_IsDownloadStep
          /\ ~Throws(handled'[1].returned)
          /\ handled'[1].returned.category \in {Str_permission, Str_filesystem, Str_network} )
        => /\ getTroubleshootingSteps(handled'[1].error) # <<>>
           /\ C32_StepLines(getTroubleshootingSteps(handled'[1].error)) ]_vars

\* the same for the categories permission and filesystem only
C32_StepsForPermissionAndFilesystem ==
    [][ ( /\ C32_IsDownloadStep
          /\ ~Throws(handled'[1].returned)
          /\ handled'[1].returned.category \in {Str_permission, Str_filesystem} )
        => /\ getTroubleshootingSteps(handled'[1].error) # <<>>
           /\ C32_StepLines(getTroubleshootingSteps(handled'[1].error)) ]_vars

(***************************************************************************)
(* Claims about streaming, late completions and callbacks (Spec)           *)
(***************************************************************************)
\* C33: in every state reached through launcher executions and listener event
\* deliveries, isStreaming = true implies isRunning = true.
C33_StreamingImpliesRunning == store.isStreaming => store.isRunning

\* an operation is in flight and streaming, with an output line in its log; and, as
\* checked by the invariant, it is running
C33_Witness ==
    /\ exec.pc = "awaiting"
    /\ store.isStreaming
    /\ store.operationId = exec.operationId
    /\ store.logs # <<>>
    /\ budget < MaxEvents

\* C34: a failure reported by a completion event is not lost when the promise settles
\* afterwards: when a completion event with success = false and error e has been
\* applied to the operation in flight and its run promise then resolves, the store's
\* error after executeOperation returned is still e.
C34_EventFailureKept ==
    [][ (IsResolveStep /\ ~store.isRunning /\ store.error # Null)
        => store'.error = store.error ]_vars

(***************************************************************************)
(* Claims about the release of subscriptions (SpecListener)                *)
(***************************************************************************)
\* C35: for every timing of the teardown relative to the subscription setup, every
\* channel subscription that gets established is released by calling its unsubscribe
\* function: once the teardown has run and the setup has come to its end, no
\* subscription is still registered.
C35_NoSubscriptionOutlivesTeardown ==
    (listener.tornDownAt # "none" /\ listener.pc \in {"ready", "failed"})
        => /\ listener.outputCallback # "registered"
           /\ listener.completeCallback # "registered"

\* the same for a teardown that runs after both subscriptions were established
C35_ReleasedWhenTornDownReady ==
    listener.tornDownAt = "ready"
        => /\ listener.outputCallback = "removed"
           /\ listener.completeCallback = "removed"

(***************************************************************************)
(* Claims about failing callbacks (SpecCallbacks)                          *)
(***************************************************************************)
\* what the claim says of a call that ended after a callback failed: it returned
\* {operationId, success: false} and the store is not running
C36_ResolvedWithFailure ==
    /\ exec.pc = "returned"
    /\ exec.result = << [operationId |-> exec.operationId, success |-> FALSE] >>
    /\ ~store.isRunning

\* C36: the promise returned by executeOperation never rejects, whatever its callbacks
\* do: when run rejects, when run throws synchronously and when the onStart hook
\* throws, it resolves with {operationId, success: false} and the store is not left
\* with isRunning = true.
C36_NeverRejects ==
    /\ exec.pc # "rejected"
    /\ exec.rejection # <<>> /\ exec.pc # "awaiting" => C36_ResolvedWithFailure

\* the same for the failures of run only: a rejected promise and a synchronous throw
C36_RunFailuresResolve ==
    (exec.rejection # <<>> /\ exec.pc \notin {"awaiting", "rejected"})
        => C36_ResolvedWithFailure

(***************************************************************************)
(* Claims about the confirmation dialog (SpecDialog, SpecDialogLive)       *)
(***************************************************************************)
C37_Answered == ~dialog.isOpen \/ ~dialog.mounted

C37_Pending(i) == i <= Len(dialog.promises) /\ dialog.promises[i] = "pending"

\* C37: every promise returned by confirm() is resolved once the dialog has been
\* confirmed or closed or the provider has unmounted, the promise of an earlier
\* confirm() call that was replaced while its dialog was open included
C37_EveryPromiseResolved ==
    \A i \in 1..MaxConfirms : (C37_Pending(i) /\ C37_Answered) ~> ~C37_Pending(i)

\* the promise of the latest confirm() call is settled by the answer: no dialog is
\* closed, and no provider unmounted, with that promise pending
C37_LatestPromiseResolved ==
    (C37_Answered /\ dialog.promises # <<>>)
        => /\ dialog.promises[Len(dialog.promises)] # "pending"
           /\ dialog.resolvePromiseRef = 0

\* true is the value on confirm, false on close and on unmount
C37_ValueOfTheAnswer ==
    [][ \A i \in DOMAIN dialog.promises :
            (dialog.promises[i] = "pending" /\ dialog'.promises[i] # "pending")
                => /\ i = dialog.resolvePromiseRef
                   /\ dialog'.promises[i] = "true"
                        <=> (dialog'.mounted /\ ~isConfirmDisabled(dialog)
                             /\ dialog' = handleConfirm(dialog)) ]_vars

C38_IsConfirmStep ==
    /\ dialog.isOpen /\ ~dialog'.isOpen /\ dialog'.mounted
    /\ \E i \in DOMAIN dialog.promises :
           dialog.promises[i] = "pending" /\ dialog'.promises[i] = "true"

C38_CountedDown ==
    /\ dialog.countdown = <<0>>
    /\ dialog.shown.ticks = 2

\* C38: the confirm action of a danger dialog fires only after the countdown has
\* gone from 2 down to 0 while that dialog's content was shown (two one-second
\* steps since confirm() showed it), also when the content replaced a danger dialog
\* that was still open
C38_DangerWaitsForCountdown ==
    [][ (C38_IsConfirmStep /\ isDestructive(dialog)) => C38_CountedDown ]_vars

\* the same for a danger dialog shown while the countdown was idle (null)
C38_FreshDangerWaitsForCountdown ==
    [][ (C38_IsConfirmStep /\ isDestructive(dialog) /\ dialog.shown.fresh)
            => C38_CountedDown ]_vars

====
